---- MODULE Spec2Model ----
(***************************************************************************)
(* GeneratedAcir, the accumulator of the ACIR-gen pass                     *)
(* (noirc_evaluator/src/ssa/acir_gen/acir_ir/generated_acir.rs).           *)
(*                                                                         *)
(* The builder's fields are the variables.  Every method is an operator    *)
(* from a builder record (and the arguments) to the record after the call, *)
(* the returned value and the outcome; every action installs the result of *)
(* one public call.  Field elements, expressions and their arithmetic live *)
(* in the acvm crate; they are modelled over a small prime field.          *)
(***************************************************************************)
EXTENDS Integers, Sequences, FiniteSets, TLC

(***************************************************************************)
(* Bounds of the model.                                                    *)
(***************************************************************************)
\* number of calls made on one builder, under each specification
MaxCalls == 4
MaxGadgetCalls == 3
MaxBlackBoxCalls == 2
MaxPermutationCalls == 3
\* largest limb_count passed to radix_le_decompose
MaxLimbs == 3
\* longest expression list passed to permutation
MaxPerm == 2

(***************************************************************************)
(* Option<T>: None is the empty sequence, Some(x) the one-element one.     *)
(***************************************************************************)
None == <<>>
Some(x) == <<x>>
is_some(o) == o # <<>>
unwrap(o) == o[1]

\* a let-binding of the source: v is computed once and handed to what follows
Then(v, F(_)) == CHOOSE r \in {F(x) : x \in {v}} : TRUE

\* `as u8` keeps the low byte.  `as u32` and the u32 witness counter are exact
\* here: every number of the model is far below 2^31, the largest TLC computes with.
U8Modulus == 256
AsU8(x) == x % U8Modulus
AsU32(x) == x

RECURSIVE Pow(_, _)
Pow(b, n) == IF n = 0 THEN 1 ELSE b * Pow(b, n - 1)

RECURSIVE BitLen(_)
BitLen(n) == IF n = 0 THEN 0 ELSE 1 + BitLen(n \div 2)

(***************************************************************************)
(* FieldElement: a prime field.  The model's prime is small so that the    *)
(* satisfying assignments of a constraint can be enumerated.               *)
(***************************************************************************)
FieldModulus == 7
FieldElement == 0 .. (FieldModulus - 1)
FAdd(a, b) == (a + b) % FieldModulus
FMul(a, b) == (a * b) % FieldModulus
FNeg(a) == (FieldModulus - a) % FieldModulus
\* FieldElement::from_be_bytes_reduce of the big-endian bytes of n
from_be_bytes_reduce(n) == n % FieldModulus
\* FieldElement::max_num_bits
max_num_bits == BitLen(FieldModulus - 1)

(***************************************************************************)
(* Expression: mul_terms (q, w_l, w_r), linear_combinations (q, w), q_c.   *)
(***************************************************************************)
Expression(m, l, c) == [mul_terms |-> m, linear_combinations |-> l, q_c |-> c]
ExprDefault == Expression(<<>>, <<>>, 0)
ExprFromField(c) == Expression(<<>>, <<>>, c)
ExprFromWitness(w) == Expression(<<>>, << <<1, w>> >>, 0)
ExprOne == ExprFromField(1)

is_const(e) == e.mul_terms = <<>> /\ e.linear_combinations = <<>>
is_linear(e) == e.mul_terms = <<>>
is_degree_one_univariate(e) == is_linear(e) /\ Len(e.linear_combinations) = 1

to_witness(e) ==
    IF /\ is_degree_one_univariate(e)
       /\ e.linear_combinations[1][1] = 1
       /\ e.q_c = 0
    THEN Some(e.linear_combinations[1][2])
    ELSE None

\* the witnesses an expression mentions
ExprWitnesses(e) ==
    {e.mul_terms[i][2] : i \in 1 .. Len(e.mul_terms)}
        \cup {e.mul_terms[i][3] : i \in 1 .. Len(e.mul_terms)}
        \cup {e.linear_combinations[i][2] : i \in 1 .. Len(e.linear_combinations)}

RECURSIVE ScaleLin(_, _)
ScaleLin(l, k) ==
    IF l = <<>> THEN <<>>
    ELSE << <<FMul(k, Head(l)[1]), Head(l)[2]>> >> \o ScaleLin(Tail(l), k)

RECURSIVE ScaleMul(_, _)
ScaleMul(m, k) ==
    IF m = <<>> THEN <<>>
    ELSE << <<FMul(k, Head(m)[1]), Head(m)[2], Head(m)[3]>> >> \o ScaleMul(Tail(m), k)

\* &Expression * FieldElement: every coefficient is scaled
ExprScale(e, k) ==
    Expression(ScaleMul(e.mul_terms, k), ScaleLin(e.linear_combinations, k), FMul(k, e.q_c))

\* a term is pushed only when its coefficient is not zero
PushNZ(t, rest) == IF t[1] = 0 THEN rest ELSE <<t>> \o rest

RECURSIVE ScaleLinNZ(_, _)
ScaleLinNZ(l, k) ==
    IF l = <<>> THEN <<>>
    ELSE PushNZ(<<FMul(k, Head(l)[1]), Head(l)[2]>>, ScaleLinNZ(Tail(l), k))

RECURSIVE ScaleMulNZ(_, _)
ScaleMulNZ(m, k) ==
    IF m = <<>> THEN <<>>
    ELSE PushNZ(<<FMul(k, Head(m)[1]), Head(m)[2], Head(m)[3]>>, ScaleMulNZ(Tail(m), k))

\* merge of two witness-ordered linear term lists: a + k*b
RECURSIVE MergeLin(_, _, _)
MergeLin(a, b, k) ==
    IF a = <<>> THEN ScaleLinNZ(b, k)
    ELSE IF b = <<>> THEN a
    ELSE LET ta == Head(a)
             tb == Head(b)
         IN  IF ta[2] > tb[2]
             THEN PushNZ(<<FMul(k, tb[1]), tb[2]>>, MergeLin(a, Tail(b), k))
             ELSE IF ta[2] < tb[2]
             THEN PushNZ(ta, MergeLin(Tail(a), b, k))
             ELSE PushNZ(<<FAdd(ta[1], FMul(k, tb[1])), ta[2]>>,
                         MergeLin(Tail(a), Tail(b), k))

PairLess(a1, a2, b1, b2) == a1 < b1 \/ (a1 = b1 /\ a2 < b2)

\* merge of two (w_l, w_r)-ordered multiplication term lists: a + k*b
RECURSIVE MergeMul(_, _, _)
MergeMul(a, b, k) ==
    IF a = <<>> THEN ScaleMulNZ(b, k)
    ELSE IF b = <<>> THEN a
    ELSE LET ta == Head(a)
             tb == Head(b)
         IN  IF PairLess(tb[2], tb[3], ta[2], ta[3])
             THEN PushNZ(<<FMul(k, tb[1]), tb[2], tb[3]>>, MergeMul(a, Tail(b), k))
             ELSE IF PairLess(ta[2], ta[3], tb[2], tb[3])
             THEN PushNZ(ta, MergeMul(Tail(a), b, k))
             ELSE PushNZ(<<FAdd(ta[1], FMul(k, tb[1])), ta[2], ta[3]>>,
                         MergeMul(Tail(a), Tail(b), k))

\* Expression::add_mul: self + k*b
add_mul(a, k, b) ==
    IF k = 0 THEN a
    ELSE IF is_const(a)
    THEN LET s == ExprScale(b, k)
         IN  Expression(s.mul_terms, s.linear_combinations, FAdd(a.q_c, s.q_c))
    ELSE IF is_const(b)
    THEN Expression(a.mul_terms, a.linear_combinations, FAdd(a.q_c, FMul(k, b.q_c)))
    ELSE Expression(MergeMul(a.mul_terms, b.mul_terms, k),
                    MergeLin(a.linear_combinations, b.linear_combinations, k),
                    FAdd(a.q_c, FMul(k, b.q_c)))

\* &Expression + &Expression, &Expression - &Expression, &Expression - Witness
ExprAdd(a, b) == add_mul(a, 1, b)
ExprSub(a, b) == add_mul(a, FNeg(1), b)
ExprSubWitness(a, w) == ExprSub(a, ExprFromWitness(w))

\* w * b.linear_combinations
RECURSIVE single_mul_terms(_, _)
single_mul_terms(w, l) ==
    IF l = <<>> THEN <<>>
    ELSE LET t == Head(l)
         IN  << IF w < t[2] THEN <<t[1], w, t[2]>> ELSE <<t[1], t[2], w>> >>
                 \o single_mul_terms(w, Tail(l))

single_mul(w, b) == Expression(single_mul_terms(w, b.linear_combinations), <<>>, 0)

RECURSIVE MulAcc(_, _, _)
MulAcc(out, lcs, rhs) ==
    IF lcs = <<>> THEN out
    ELSE Then(add_mul(out, Head(lcs)[1], single_mul(Head(lcs)[2], rhs)),
              LAMBDA acc : MulAcc(acc, Tail(lcs), rhs))

\* &Expression * &Expression: None when the product would exceed degree 2
ExprMul(a, b) ==
    IF is_const(a) THEN Some(ExprScale(b, a.q_c))
    ELSE IF is_const(b) THEN Some(ExprScale(a, b.q_c))
    ELSE IF ~(is_linear(a) /\ is_linear(b)) THEN None
    ELSE LET quad == MulAcc(ExprFromField(FMul(a.q_c, b.q_c)), a.linear_combinations, b)
         IN  Some(Expression(quad.mul_terms,
                             MergeLin(ScaleLinNZ(a.linear_combinations, b.q_c),
                                      b.linear_combinations, a.q_c),
                             quad.q_c))

(***************************************************************************)
(* The value of an expression under an assignment of the witnesses.        *)
(***************************************************************************)
RECURSIVE EvalLin(_, _)
EvalLin(l, a) ==
    IF l = <<>> THEN 0
    ELSE FAdd(FMul(Head(l)[1], a[Head(l)[2]]), EvalLin(Tail(l), a))

RECURSIVE EvalMul(_, _)
EvalMul(m, a) ==
    IF m = <<>> THEN 0
    ELSE FAdd(FMul(Head(m)[1], FMul(a[Head(m)[2]], a[Head(m)[3]])), EvalMul(Tail(m), a))

Eval(e, a) == FAdd(FAdd(EvalMul(e.mul_terms, a), EvalLin(e.linear_combinations, a)), e.q_c)

(***************************************************************************)
(* Opcodes and opcode locations.  Indices are zero-based, as in the code.  *)
(***************************************************************************)
AssertZero(e) == [kind |-> "AssertZero", expr |-> e]
BlackBoxFuncCall(call) == [kind |-> "BlackBoxFuncCall", call |-> call]
Directive(d) == [kind |-> "Directive", directive |-> d]
AcvmBrillig(inputs, outputs, bytecode, predicate) ==
    [kind |-> "Brillig", inputs |-> inputs, outputs |-> outputs,
     bytecode |-> bytecode, predicate |-> predicate]
FunctionInput(w, n) == [witness |-> w, num_bits |-> n]

Acir(i) == <<"Acir", i>>
BrilligLoc(acir_index, brillig_index) == <<"Brillig", acir_index, brillig_index>>

\* BTreeMap: a function; the empty map is the empty function
EmptyMap == <<>>
MapInsert(m, k, v) == [x \in (DOMAIN m) \cup {k} |-> IF x = k THEN v ELSE m[x]]

(***************************************************************************)
(* The builder (struct GeneratedAcir).  witness_log is a history of the    *)
(* values next_witness_index has returned; the code keeps no such field.   *)
(***************************************************************************)
VARIABLES current_witness_index, opcodes, return_witnesses, input_witnesses,
          locations, call_stack, assert_messages, warnings,
          witness_log, last, ncalls

vars == <<current_witness_index, opcodes, return_witnesses, input_witnesses,
          locations, call_stack, assert_messages, warnings,
          witness_log, last, ncalls>>

Self ==
    [current_witness_index |-> current_witness_index,
     opcodes |-> opcodes,
     return_witnesses |-> return_witnesses,
     input_witnesses |-> input_witnesses,
     locations |-> locations,
     call_stack |-> call_stack,
     assert_messages |-> assert_messages,
     warnings |-> warnings,
     witness_log |-> witness_log]

\* #[derive(Default)]
GeneratedAcirDefault ==
    [current_witness_index |-> None,
     opcodes |-> <<>>,
     return_witnesses |-> <<>>,
     input_witnesses |-> <<>>,
     locations |-> EmptyMap,
     call_stack |-> <<>>,
     assert_messages |-> EmptyMap,
     warnings |-> <<>>,
     witness_log |-> <<>>]

\* what a call hands back: the builder after it, the value, and how it ended
\* ("ok", "err" for a returned Err, "panic" for an assertion or index failure)
NoError == [type |-> "none"]
Res(self, ret, outcome, error) ==
    [self |-> self, ret |-> ret, outcome |-> outcome, error |-> error]
Ok(self, ret) == Res(self, ret, "ok", NoError)
Panic(self, what) == Res(self, <<>>, "panic", [type |-> what])

\* a faulty getter that reports the number of witnesses allocated;
\* CurrentWitnessIndexReport must tell it from current_witness_index_get
current_witness_index_count(self) ==
    IF is_some(self.current_witness_index) THEN unwrap(self.current_witness_index) + 1 ELSE 0

current_witness_index_get(self) ==
    IF is_some(self.current_witness_index) THEN unwrap(self.current_witness_index) ELSE 0

last_acir_opcode_location(self) == Acir(Len(self.opcodes) - 1)

\* a faulty push that files the call stack under the length after the push, one past
\* the opcode; LocationsKeptComplete must tell it from push_opcode
push_opcode_off_by_one(self, opcode) ==
    IF self.call_stack # <<>>
    THEN [self EXCEPT !.opcodes = Append(@, opcode),
                      !.locations = MapInsert(@, Acir(Len(self.opcodes) + 1), self.call_stack)]
    ELSE [self EXCEPT !.opcodes = Append(@, opcode)]

\* a faulty push that records the call stack even when it is empty;
\* CallStackStamping must tell it from push_opcode
push_opcode_always_stamp(self, opcode) ==
    [self EXCEPT !.opcodes = Append(@, opcode),
                 !.locations = MapInsert(@, Acir(Len(self.opcodes)), self.call_stack)]

\* a faulty push that puts the opcode at the head of the stream; AppendOnly must
\* tell it from push_opcode
push_opcode_at_head(self, opcode) ==
    IF self.call_stack # <<>>
    THEN [self EXCEPT !.opcodes = <<opcode>> \o @,
                      !.locations = MapInsert(@, Acir(Len(self.opcodes)), self.call_stack)]
    ELSE [self EXCEPT !.opcodes = <<opcode>> \o @]

push_opcode(self, opcode) ==
    IF self.call_stack # <<>>
    THEN [self EXCEPT !.opcodes = Append(@, opcode),
                      !.locations = MapInsert(@, Acir(Len(self.opcodes)), self.call_stack)]
    ELSE [self EXCEPT !.opcodes = Append(@, opcode)]

\* a faulty take that also starts the witness counter over; TakeOpcodesFrame must
\* tell it from take_opcodes
take_opcodes_reset(self) ==
    Ok([self EXCEPT !.opcodes = <<>>, !.current_witness_index = None], self.opcodes)

take_opcodes(self) == Ok([self EXCEPT !.opcodes = <<>>], self.opcodes)

\* a faulty allocator that hands out the current index again; WitnessMonotonicity
\* must tell it from next_witness_index
next_witness_index_repeating(self) ==
    LET next == Some(current_witness_index_get(self))
    IN  Ok([self EXCEPT !.current_witness_index = next,
                        !.witness_log = Append(@, unwrap(next))],
           unwrap(next))

next_witness_index(self) ==
    LET next == IF is_some(self.current_witness_index)
                THEN Some(AsU32(unwrap(self.current_witness_index) + 1))
                ELSE Some(0)
    IN  Ok([self EXCEPT !.current_witness_index = next,
                        !.witness_log = Append(@, unwrap(next))],
           unwrap(next))

\* vecmap(0..n, |_| self.next_witness_index()): n calls in a row, the first half
\* of them and then the rest (the split keeps TLC's evaluation shallow)
\* a faulty allocation that lists the later witnesses first;
\* BlackBoxOutputs must tell it from next_witnesses
RECURSIVE next_witnesses_descending(_, _)
next_witnesses_descending(self, n) ==
    IF n = 0 THEN Ok(self, <<>>)
    ELSE IF n = 1
    THEN Then(next_witness_index(self), LAMBDA only : Ok(only.self, <<only.ret>>))
    ELSE Then(next_witnesses_descending(self, n \div 2),
           LAMBDA first :
             Then(next_witnesses_descending(first.self, n - (n \div 2)),
               LAMBDA rest : Ok(rest.self, rest.ret \o first.ret)))

RECURSIVE next_witnesses(_, _)
next_witnesses(self, n) ==
    IF n = 0 THEN Ok(self, <<>>)
    ELSE IF n = 1
    THEN Then(next_witness_index(self), LAMBDA only : Ok(only.self, <<only.ret>>))
    ELSE Then(next_witnesses(self, n \div 2),
           LAMBDA first :
             Then(next_witnesses(first.self, n - (n \div 2)),
               LAMBDA rest : Ok(rest.self, first.ret \o rest.ret)))

assert_is_zero(self, expr) == push_opcode(self, AssertZero(expr))

\* a faulty reduction that allocates the witness and leaves it unconstrained;
\* ScenarioAThreeWitnesses must tell it from create_witness_for_expression
create_witness_unbound(self, expression) ==
    Then(next_witness_index(self), LAMBDA fresh : Ok(fresh.self, fresh.ret))

create_witness_for_expression(self, expression) ==
    Then(next_witness_index(self),
      LAMBDA fresh :
        Ok(assert_is_zero(fresh.self, ExprSubWitness(expression, fresh.ret)), fresh.ret))

\* a faulty reducer that allocates a witness for every expression;
\* ReductionIdempotence must tell it from get_or_create_witness
get_or_create_witness_always(self, expr) == create_witness_for_expression(self, expr)

\* a faulty reducer that takes every expression over one witness for that witness,
\* whatever its coefficient and constant; ForcedReduction must tell it from
\* get_or_create_witness
get_or_create_witness_univariate(self, expr) ==
    IF is_degree_one_univariate(expr)
    THEN Ok(self, expr.linear_combinations[1][2])
    ELSE create_witness_for_expression(self, expr)

get_or_create_witness(self, expr) ==
    IF is_some(to_witness(expr))
    THEN Ok(self, unwrap(to_witness(expr)))
    ELSE create_witness_for_expression(self, expr)

\* a faulty push that drops a witness already listed; ReturnWitnessesFrame must
\* tell it from push_return_witness
push_return_witness_once(self, witness) ==
    IF \E i \in DOMAIN self.return_witnesses : self.return_witnesses[i] = witness
    THEN Ok(self, <<>>)
    ELSE Ok([self EXCEPT !.return_witnesses = Append(@, witness)], <<>>)

push_return_witness(self, witness) ==
    Ok([self EXCEPT !.return_witnesses = Append(@, witness)], <<>>)

(***************************************************************************)
(* Brillig embedding and the inverse hint.                                 *)
(***************************************************************************)
GeneratedBrillig(byte_code, locs, msgs) ==
    [byte_code |-> byte_code, locations |-> locs, assert_messages |-> msgs]

\* brillig_directive::directive_invert(): bytecode only, no locations, no messages
directive_invert == GeneratedBrillig("directive_invert", EmptyMap, EmptyMap)

BrilligInputsSingle(e) == [kind |-> "Single", expr |-> e]
BrilligOutputsSimple(w) == [kind |-> "Simple", witness |-> w]

\* the locations and the messages of the brillig program, keyed under the opcode
BrilligKeys(acir_index, m) == {BrilligLoc(acir_index, i) : i \in DOMAIN m}
BrilligExtend(map, acir_index, m) ==
    [k \in (DOMAIN map) \cup BrilligKeys(acir_index, m) |->
        IF k \in BrilligKeys(acir_index, m) THEN m[k[3]] ELSE map[k]]

\* a faulty embedding that keys the program's locations and messages under the
\* length after the push, one past the opcode; BrilligFrame must tell it from brillig
brillig_keyed_past(self, predicate, generated_brillig, inputs, outputs) ==
    Then(push_opcode(self,
             AcvmBrillig(inputs, outputs, generated_brillig.byte_code, predicate)),
      LAMBDA pushed :
        [pushed EXCEPT
            !.locations = BrilligExtend(@, Len(pushed.opcodes),
                                        generated_brillig.locations),
            !.assert_messages = BrilligExtend(@, Len(pushed.opcodes),
                                              generated_brillig.assert_messages)])

brillig(self, predicate, generated_brillig, inputs, outputs) ==
    Then(push_opcode(self,
             AcvmBrillig(inputs, outputs, generated_brillig.byte_code, predicate)),
      LAMBDA pushed :
        [pushed EXCEPT
            !.locations = BrilligExtend(@, Len(pushed.opcodes) - 1,
                                        generated_brillig.locations),
            !.assert_messages = BrilligExtend(@, Len(pushed.opcodes) - 1,
                                              generated_brillig.assert_messages)])

brillig_inverse(self, expr) ==
    Then(next_witness_index(self),
      LAMBDA inverted :
        Ok(brillig(inverted.self, Some(ExprOne), directive_invert,
                   <<BrilligInputsSingle(expr)>>, <<BrilligOutputsSimple(inverted.ret)>>),
           inverted.ret))

(***************************************************************************)
(* is_zero / is_equal.                                                     *)
(***************************************************************************)
\* a faulty gadget whose second constraint is z*y instead of t*y; IsZeroSoundness
\* must tell it from is_zero
is_zero_unsound(self, t_expr) ==
    Then(IF is_some(to_witness(t_expr))
         THEN Ok(self, unwrap(to_witness(t_expr)))
         ELSE get_or_create_witness(self, ExprScale(t_expr, FNeg(1))),
      LAMBDA t :
        Then(brillig_inverse(t.self, ExprFromWitness(t.ret)),
          LAMBDA z :
            Then(next_witness_index(z.self),
              LAMBDA y :
                Ok(assert_is_zero(
                       assert_is_zero(y.self,
                           Expression(<< <<1, t.ret, z.ret>> >>, << <<1, y.ret>> >>, FNeg(1))),
                       Expression(<< <<1, z.ret, y.ret>> >>, <<>>, 0)),
                   y.ret))))

\* a faulty gadget that allocates y before the inverse z; IsZeroShape must tell it
\* from is_zero
is_zero_y_first(self, t_expr) ==
    Then(IF is_some(to_witness(t_expr))
         THEN Ok(self, unwrap(to_witness(t_expr)))
         ELSE get_or_create_witness(self, ExprScale(t_expr, FNeg(1))),
      LAMBDA t :
        Then(next_witness_index(t.self),
          LAMBDA y :
            Then(brillig_inverse(y.self, ExprFromWitness(t.ret)),
              LAMBDA z :
                Ok(assert_is_zero(
                       assert_is_zero(z.self,
                           Expression(<< <<1, t.ret, z.ret>> >>, << <<1, y.ret>> >>, FNeg(1))),
                       Expression(<< <<1, t.ret, y.ret>> >>, <<>>, 0)),
                   y.ret))))

is_zero(self, t_expr) ==
    Then(IF is_some(to_witness(t_expr))
         THEN Ok(self, unwrap(to_witness(t_expr)))
         ELSE get_or_create_witness(self, ExprScale(t_expr, FNeg(1))),
      LAMBDA t :
        Then(brillig_inverse(t.self, ExprFromWitness(t.ret)),
          LAMBDA z :
            Then(next_witness_index(z.self),
              LAMBDA y :
                Ok(assert_is_zero(
                       assert_is_zero(y.self,
                           \* y_is_boolean_constraint: t*z + y - 1
                           Expression(<< <<1, t.ret, z.ret>> >>, << <<1, y.ret>> >>, FNeg(1))),
                       \* ty_zero_constraint: t*y
                       Expression(<< <<1, t.ret, y.ret>> >>, <<>>, 0)),
                   y.ret))))

is_equal(self, lhs, rhs) == is_zero(self, ExprSub(lhs, rhs))

(***************************************************************************)
(* Range constraint and radix decomposition.                               *)
(***************************************************************************)
InvalidRangeConstraint(num_bits, stack) ==
    [type |-> "InvalidRangeConstraint", num_bits |-> num_bits, call_stack |-> stack]

\* a faulty check that lets num_bits = max_num_bits through; RangeConstraintContract
\* must tell it from range_constraint
range_constraint_lenient(self, witness, num_bits) ==
    IF num_bits > max_num_bits
    THEN Res(self, <<>>, "err", InvalidRangeConstraint(max_num_bits, self.call_stack))
    ELSE Ok(push_opcode(self,
                BlackBoxFuncCall([name |-> "RANGE", input |-> FunctionInput(witness, num_bits)])),
            <<>>)

range_constraint(self, witness, num_bits) ==
    IF num_bits >= max_num_bits
    THEN Res(self, <<>>, "err", InvalidRangeConstraint(max_num_bits, self.call_stack))
    ELSE Ok(push_opcode(self,
                BlackBoxFuncCall([name |-> "RANGE", input |-> FunctionInput(witness, num_bits)])),
            <<>>)

\* the loop over the limbs; `?` returns at the first failed range constraint
\* a faulty loop that gives every limb the weight 1; RadixOpcodes must tell it
\* from radix_limbs
RECURSIVE radix_limbs_unweighted(_, _, _, _, _, _)
radix_limbs_unweighted(self, limbs, radix, bit_size, composed_limbs, radix_pow) ==
    IF limbs = <<>> THEN Ok(self, composed_limbs)
    ELSE Then(range_constraint(self, Head(limbs), bit_size),
           LAMBDA rc :
             IF rc.outcome # "ok" THEN rc
             ELSE Then(add_mul(composed_limbs, from_be_bytes_reduce(radix_pow),
                               ExprFromWitness(Head(limbs))),
                    LAMBDA composed :
                      radix_limbs_unweighted(rc.self, Tail(limbs), radix, bit_size,
                                             composed, radix_pow)))

RECURSIVE radix_limbs(_, _, _, _, _, _)
radix_limbs(self, limbs, radix, bit_size, composed_limbs, radix_pow) ==
    IF limbs = <<>> THEN Ok(self, composed_limbs)
    ELSE Then(range_constraint(self, Head(limbs), bit_size),
           LAMBDA rc :
             IF rc.outcome # "ok" THEN rc
             ELSE Then(add_mul(composed_limbs, from_be_bytes_reduce(radix_pow),
                               ExprFromWitness(Head(limbs))),
                    LAMBDA composed :
                      radix_limbs(rc.self, Tail(limbs), radix, bit_size, composed,
                                  radix_pow * radix)))

\* a faulty decomposition that drops the error of a limb's range constraint;
\* RadixOverflow must tell it from radix_le_decompose
radix_le_decompose_swallowing(self, input_expr, radix, limb_count, bit_size) ==
    IF Pow(2, bit_size) # radix
    THEN Panic(self, "ICE: Radix must be a power of 2")
    ELSE Then(next_witnesses(self, limb_count),
           LAMBDA limb_witnesses :
             Then(radix_limbs(push_opcode(limb_witnesses.self,
                                  Directive([name |-> "ToLeRadix", a |-> input_expr,
                                             b |-> limb_witnesses.ret, radix |-> radix])),
                              limb_witnesses.ret, radix, bit_size, ExprDefault, 1),
               LAMBDA loop :
                 IF loop.outcome # "ok" THEN Ok(loop.self, limb_witnesses.ret)
                 ELSE Ok(assert_is_zero(loop.self, ExprSub(input_expr, loop.ret)),
                         limb_witnesses.ret)))

radix_le_decompose(self, input_expr, radix, limb_count, bit_size) ==
    IF Pow(2, bit_size) # radix
    THEN Panic(self, "ICE: Radix must be a power of 2")
    ELSE Then(next_witnesses(self, limb_count),
           LAMBDA limb_witnesses :
             Then(radix_limbs(push_opcode(limb_witnesses.self,
                                  Directive([name |-> "ToLeRadix", a |-> input_expr,
                                             b |-> limb_witnesses.ret, radix |-> radix])),
                              limb_witnesses.ret, radix, bit_size, ExprDefault, 1),
               LAMBDA loop :
                 IF loop.outcome # "ok" THEN loop
                 ELSE Ok(assert_is_zero(loop.self, ExprSub(input_expr, loop.ret)),
                         limb_witnesses.ret)))

(***************************************************************************)
(* Multiplication with reduction.                                          *)
(***************************************************************************)
\* the operand itself when it is linear, else a witness standing for it
reduce_operand(self, e) ==
    IF is_linear(e) THEN Ok(self, e)
    ELSE Then(get_or_create_witness(self, e), LAMBDA w : Ok(w.self, ExprFromWitness(w.ret)))

\* (&a * &b).expect(message)
expect_mul(self, a, b, message) ==
    Then(ExprMul(a, b),
      LAMBDA product : IF is_some(product) THEN Ok(self, unwrap(product))
                       ELSE Panic(self, message))

\* a faulty multiplication without the lhs == rhs shortcut, which reduces both
\* operands; SquareReduction must tell it from mul_with_witness
mul_with_witness_no_shortcut(self, lhs, rhs) ==
    IF (is_linear(lhs) /\ is_linear(rhs)) \/ (is_const(lhs) \/ is_const(rhs))
    THEN expect_mul(self, lhs, rhs, "Both expressions are degree <= 1")
    ELSE Then(reduce_operand(self, lhs),
           LAMBDA l :
             Then(reduce_operand(l.self, rhs),
               LAMBDA r :
                 expect_mul(r.self, l.ret, r.ret,
                            "Both expressions are reduced to be degree <= 1")))

\* a faulty multiplication that reduces rhs before lhs; MulReduction must tell it
\* from mul_with_witness
mul_with_witness_rhs_first(self, lhs, rhs) ==
    IF (is_linear(lhs) /\ is_linear(rhs)) \/ (is_const(lhs) \/ is_const(rhs))
    THEN expect_mul(self, lhs, rhs, "Both expressions are degree <= 1")
    ELSE Then(reduce_operand(self, rhs),
           LAMBDA r :
             IF lhs = rhs
             THEN expect_mul(r.self, r.ret, r.ret,
                             "Both expressions are reduced to be degree <= 1")
             ELSE Then(reduce_operand(r.self, lhs),
                    LAMBDA l :
                      expect_mul(l.self, l.ret, r.ret,
                                 "Both expressions are reduced to be degree <= 1")))

mul_with_witness(self, lhs, rhs) ==
    IF (is_linear(lhs) /\ is_linear(rhs)) \/ (is_const(lhs) \/ is_const(rhs))
    THEN expect_mul(self, lhs, rhs, "Both expressions are degree <= 1")
    ELSE Then(reduce_operand(self, lhs),
           LAMBDA l :
             IF lhs = rhs
             THEN expect_mul(l.self, l.ret, l.ret,
                             "Both expressions are reduced to be degree <= 1")
             ELSE Then(reduce_operand(l.self, rhs),
                    LAMBDA r :
                      expect_mul(r.self, l.ret, r.ret,
                                 "Both expressions are reduced to be degree <= 1")))

(***************************************************************************)
(* Black-box dispatcher: arity tables, checks and call_black_box.          *)
(***************************************************************************)
BlackBoxFunc ==
    {"AND", "XOR", "RANGE", "SHA256", "Blake2s", "Blake3", "SchnorrVerify",
     "PedersenCommitment", "PedersenHash", "EcdsaSecp256k1", "EcdsaSecp256r1",
     "FixedBaseScalarMul", "EmbeddedCurveAdd", "Keccak256", "Keccakf1600",
     "RecursiveAggregation", "BigIntAdd", "BigIntSub", "BigIntMul", "BigIntDiv",
     "BigIntFromLeBytes", "BigIntToLeBytes", "Poseidon2Permutation",
     "Sha256Compression"}

black_box_func_expected_input_size(name) ==
    CASE name \in {"AND", "XOR"} -> Some(2)
      [] name \in {"Keccak256", "SHA256", "Blake2s", "Blake3",
                   "PedersenCommitment", "PedersenHash"} -> None
      [] name = "Keccakf1600" -> Some(25)
      [] name = "Poseidon2Permutation" -> None
      [] name = "Sha256Compression" -> Some(24)
      [] name = "RANGE" -> Some(1)
      [] name \in {"SchnorrVerify", "EcdsaSecp256k1", "EcdsaSecp256r1"} -> None
      [] name = "FixedBaseScalarMul" -> Some(2)
      [] name = "RecursiveAggregation" -> None
      [] name = "EmbeddedCurveAdd" -> Some(4)
      [] name \in {"BigIntAdd", "BigIntSub", "BigIntMul", "BigIntDiv",
                   "BigIntToLeBytes"} -> Some(0)
      [] name = "BigIntFromLeBytes" -> None

black_box_expected_output_size(name) ==
    CASE name \in {"AND", "XOR"} -> Some(1)
      [] name \in {"Keccak256", "SHA256", "Blake2s", "Blake3"} -> Some(32)
      [] name = "Keccakf1600" -> Some(25)
      [] name = "Poseidon2Permutation" -> None
      [] name = "Sha256Compression" -> Some(8)
      [] name = "PedersenCommitment" -> Some(2)
      [] name = "PedersenHash" -> Some(1)
      [] name = "RANGE" -> Some(0)
      [] name \in {"SchnorrVerify", "EcdsaSecp256k1", "EcdsaSecp256r1"} -> Some(1)
      [] name \in {"FixedBaseScalarMul", "EmbeddedCurveAdd"} -> Some(2)
      [] name \in {"BigIntAdd", "BigIntSub", "BigIntMul", "BigIntDiv",
                   "BigIntFromLeBytes"} -> Some(0)
      [] name = "BigIntToLeBytes" -> None
      [] name = "RecursiveAggregation" -> None

\* TRUE when the assert_eq! passes (or there is no expectation)
intrinsics_check_inputs(name, input_count) ==
    LET expected == black_box_func_expected_input_size(name)
    IN  IF expected = None THEN TRUE ELSE unwrap(expected) = input_count

intrinsics_check_outputs(name, output_count) ==
    LET expected == black_box_expected_output_size(name)
    IN  IF expected = None THEN TRUE ELSE unwrap(expected) = output_count

RECURSIVE SumLen(_)
SumLen(groups) == IF groups = <<>> THEN 0 ELSE Len(Head(groups)) + SumLen(Tail(groups))

RECURSIVE MapAsU8(_)
MapAsU8(cs) == IF cs = <<>> THEN <<>> ELSE <<AsU8(Head(cs))>> \o MapAsU8(Tail(cs))

\* the slots (zero-based) a variant reads: groups, items, constants, outputs
HasGroup(inputs, g) == Len(inputs) > g
HasItem(inputs, g, i) == HasGroup(inputs, g) /\ Len(inputs[g + 1]) > i
Group(inputs, g) == inputs[g + 1]
Item(inputs, g, i) == inputs[g + 1][i + 1]
HasAt(s, i) == Len(s) > i
At(s, i) == s[i + 1]

\* every index the match arm of `name` evaluates is in bounds
black_box_slots_ok(name, inputs, ci, co, outputs) ==
    CASE name \in {"AND", "XOR"} ->
             HasItem(inputs, 0, 0) /\ HasItem(inputs, 1, 0) /\ HasAt(outputs, 0)
      [] name = "RANGE" -> HasItem(inputs, 0, 0)
      [] name \in {"SHA256", "Blake2s", "Blake3", "Keccakf1600"} -> HasGroup(inputs, 0)
      [] name = "SchnorrVerify" ->
             /\ HasItem(inputs, 0, 0) /\ HasItem(inputs, 1, 0)
             /\ HasGroup(inputs, 2) /\ HasGroup(inputs, 3) /\ HasAt(outputs, 0)
      [] name = "PedersenCommitment" ->
             HasGroup(inputs, 0) /\ HasAt(outputs, 1) /\ HasAt(ci, 0)
      [] name = "PedersenHash" ->
             HasGroup(inputs, 0) /\ HasAt(outputs, 0) /\ HasAt(ci, 0)
      [] name \in {"EcdsaSecp256k1", "EcdsaSecp256r1"} ->
             HasGroup(inputs, 3) /\ HasAt(outputs, 0)
      [] name = "FixedBaseScalarMul" ->
             HasItem(inputs, 0, 0) /\ HasItem(inputs, 1, 0) /\ HasAt(outputs, 1)
      [] name = "EmbeddedCurveAdd" ->
             /\ HasItem(inputs, 0, 0) /\ HasItem(inputs, 1, 0)
             /\ HasItem(inputs, 2, 0) /\ HasItem(inputs, 3, 0) /\ HasAt(outputs, 1)
      [] name = "Keccak256" ->
             HasGroup(inputs, 0) /\ HasAt(inputs[Len(inputs)], 0)
      [] name = "RecursiveAggregation" ->
             HasGroup(inputs, 2) /\ HasItem(inputs, 3, 0)
      [] name \in {"BigIntAdd", "BigIntSub", "BigIntMul", "BigIntDiv"} ->
             HasAt(ci, 1) /\ HasAt(co, 0)
      [] name = "BigIntFromLeBytes" -> HasGroup(inputs, 0) /\ HasAt(co, 0)
      [] name = "BigIntToLeBytes" -> HasAt(ci, 0)
      [] name = "Poseidon2Permutation" -> HasGroup(inputs, 0) /\ HasAt(ci, 0)
      [] name = "Sha256Compression" -> HasGroup(inputs, 1)

\* the BlackBoxFuncCall variant built by the match arm of `name`
black_box_func_call(name, inputs, ci, co, outputs) ==
    CASE name \in {"AND", "XOR"} ->
             [name |-> name, lhs |-> Item(inputs, 0, 0), rhs |-> Item(inputs, 1, 0),
              output |-> At(outputs, 0)]
      [] name = "RANGE" -> [name |-> name, input |-> Item(inputs, 0, 0)]
      [] name \in {"SHA256", "Blake2s", "Blake3", "Keccakf1600"} ->
             [name |-> name, inputs |-> Group(inputs, 0), outputs |-> outputs]
      [] name = "SchnorrVerify" ->
             [name |-> name, public_key_x |-> Item(inputs, 0, 0),
              public_key_y |-> Item(inputs, 1, 0), signature |-> Group(inputs, 2),
              message |-> Group(inputs, 3), output |-> At(outputs, 0)]
      [] name = "PedersenCommitment" ->
             [name |-> name, inputs |-> Group(inputs, 0),
              outputs |-> <<At(outputs, 0), At(outputs, 1)>>,
              domain_separator |-> AsU32(At(ci, 0))]
      [] name = "PedersenHash" ->
             [name |-> name, inputs |-> Group(inputs, 0), output |-> At(outputs, 0),
              domain_separator |-> AsU32(At(ci, 0))]
      [] name \in {"EcdsaSecp256k1", "EcdsaSecp256r1"} ->
             [name |-> name, public_key_x |-> Group(inputs, 0),
              public_key_y |-> Group(inputs, 1), signature |-> Group(inputs, 2),
              hashed_message |-> Group(inputs, 3), output |-> At(outputs, 0)]
      [] name = "FixedBaseScalarMul" ->
             [name |-> name, low |-> Item(inputs, 0, 0), high |-> Item(inputs, 1, 0),
              outputs |-> <<At(outputs, 0), At(outputs, 1)>>]
      [] name = "EmbeddedCurveAdd" ->
             [name |-> name, input1_x |-> Item(inputs, 0, 0), input1_y |-> Item(inputs, 1, 0),
              input2_x |-> Item(inputs, 2, 0), input2_y |-> Item(inputs, 3, 0),
              outputs |-> <<At(outputs, 0), At(outputs, 1)>>]
      [] name = "Keccak256" ->
             [name |-> "Keccak256VariableLength", inputs |-> Group(inputs, 0),
              var_message_size |-> At(inputs[Len(inputs)], 0), outputs |-> outputs]
      [] name = "RecursiveAggregation" ->
             [name |-> name, verification_key |-> Group(inputs, 0),
              proof |-> Group(inputs, 1), public_inputs |-> Group(inputs, 2),
              key_hash |-> Item(inputs, 3, 0)]
      [] name \in {"BigIntAdd", "BigIntSub", "BigIntMul", "BigIntDiv"} ->
             [name |-> name, lhs |-> AsU32(At(ci, 0)), rhs |-> AsU32(At(ci, 1)),
              output |-> AsU32(At(co, 0))]
      [] name = "BigIntFromLeBytes" ->
             [name |-> name, inputs |-> Group(inputs, 0), modulus |-> MapAsU8(ci),
              output |-> AsU32(At(co, 0))]
      [] name = "BigIntToLeBytes" ->
             [name |-> name, input |-> AsU32(At(ci, 0)), outputs |-> outputs]
      [] name = "Poseidon2Permutation" ->
             [name |-> name, inputs |-> Group(inputs, 0), outputs |-> outputs,
              len |-> AsU32(At(ci, 0))]
      [] name = "Sha256Compression" ->
             [name |-> name, inputs |-> Group(inputs, 0),
              hash_values |-> Group(inputs, 1), outputs |-> outputs]

MissingArg(name, arg, stack) ==
    [type |-> "MissingArg", name |-> name, arg |-> arg, call_stack |-> stack]

\* a faulty dispatcher that allocates the outputs before it checks the arities;
\* ArityEnforcement must tell it from call_black_box
call_black_box_late_check(self, func_name, inputs, constant_inputs, constant_outputs, output_count) ==
    Then(next_witnesses(self, output_count),
      LAMBDA outputs :
        IF ~intrinsics_check_inputs(func_name, SumLen(inputs))
        THEN Panic(outputs.self, "Tried to call black box function with wrong inputs")
        ELSE IF ~intrinsics_check_outputs(func_name, output_count)
        THEN Panic(outputs.self, "Tried to call black box function with wrong outputs")
        ELSE IF func_name = "Keccak256" /\ inputs = <<>>
        THEN Res(outputs.self, <<>>, "err",
                 MissingArg("", "message_size", outputs.self.call_stack))
        ELSE IF ~black_box_slots_ok(func_name, inputs, constant_inputs,
                                    constant_outputs, outputs.ret)
        THEN Panic(outputs.self, "index out of bounds")
        ELSE Ok(push_opcode(outputs.self,
                    BlackBoxFuncCall(black_box_func_call(func_name, inputs,
                        constant_inputs, constant_outputs, outputs.ret))),
                outputs.ret))

\* a faulty dispatcher whose Keccak256 arm reads the message size from the first
\* group; KeccakDispatch must tell it from call_black_box
call_black_box_size_from_message(self, func_name, inputs, constant_inputs, constant_outputs, output_count) ==
    IF ~intrinsics_check_inputs(func_name, SumLen(inputs))
    THEN Panic(self, "Tried to call black box function with wrong inputs")
    ELSE IF ~intrinsics_check_outputs(func_name, output_count)
    THEN Panic(self, "Tried to call black box function with wrong outputs")
    ELSE Then(next_witnesses(self, output_count),
           LAMBDA outputs :
             IF func_name = "Keccak256" /\ inputs = <<>>
             THEN Res(outputs.self, <<>>, "err",
                      MissingArg("", "message_size", outputs.self.call_stack))
             ELSE IF ~black_box_slots_ok(func_name, inputs, constant_inputs,
                                         constant_outputs, outputs.ret)
             THEN Panic(outputs.self, "index out of bounds")
             ELSE IF func_name = "Keccak256"
             THEN Ok(push_opcode(outputs.self,
                         BlackBoxFuncCall(
                             [black_box_func_call(func_name, inputs, constant_inputs,
                                                  constant_outputs, outputs.ret)
                                 EXCEPT !.var_message_size = At(Group(inputs, 0), 0)])),
                     outputs.ret)
             ELSE Ok(push_opcode(outputs.self,
                         BlackBoxFuncCall(black_box_func_call(func_name, inputs,
                             constant_inputs, constant_outputs, outputs.ret))),
                     outputs.ret))

\* a faulty dispatcher that looks for the message size before it allocates the
\* outputs; MissingArgAfterAllocation must tell it from call_black_box
call_black_box_early_missing(self, func_name, inputs, constant_inputs, constant_outputs, output_count) ==
    IF ~intrinsics_check_inputs(func_name, SumLen(inputs))
    THEN Panic(self, "Tried to call black box function with wrong inputs")
    ELSE IF ~intrinsics_check_outputs(func_name, output_count)
    THEN Panic(self, "Tried to call black box function with wrong outputs")
    ELSE IF func_name = "Keccak256" /\ inputs = <<>>
    THEN Res(self, <<>>, "err", MissingArg("", "message_size", self.call_stack))
    ELSE Then(next_witnesses(self, output_count),
           LAMBDA outputs :
             IF ~black_box_slots_ok(func_name, inputs, constant_inputs,
                                    constant_outputs, outputs.ret)
             THEN Panic(outputs.self, "index out of bounds")
             ELSE Ok(push_opcode(outputs.self,
                         BlackBoxFuncCall(black_box_func_call(func_name, inputs,
                             constant_inputs, constant_outputs, outputs.ret))),
                     outputs.ret))

call_black_box(self, func_name, inputs, constant_inputs, constant_outputs, output_count) ==
    IF ~intrinsics_check_inputs(func_name, SumLen(inputs))
    THEN Panic(self, "Tried to call black box function with wrong inputs")
    ELSE IF ~intrinsics_check_outputs(func_name, output_count)
    THEN Panic(self, "Tried to call black box function with wrong outputs")
    ELSE Then(next_witnesses(self, output_count),
           LAMBDA outputs :
             IF func_name = "Keccak256" /\ inputs = <<>>
             THEN Res(outputs.self, <<>>, "err",
                      MissingArg("", "message_size", outputs.self.call_stack))
             ELSE IF ~black_box_slots_ok(func_name, inputs, constant_inputs,
                                         constant_outputs, outputs.ret)
             THEN Panic(outputs.self, "index out of bounds")
             ELSE Ok(push_opcode(outputs.self,
                         BlackBoxFuncCall(black_box_func_call(func_name, inputs,
                             constant_inputs, constant_outputs, outputs.ret))),
                     outputs.ret))

(***************************************************************************)
(* Permutation.  permutation_layer (sort.rs) is the switching network: it  *)
(* reads its control bits from `bits`, constrains each bit it uses to be   *)
(* boolean and returns the bits used and the network's output expressions. *)
(***************************************************************************)
\* bits_len += ((i + 1) as f32).log2().ceil() as u32
RECURSIVE CeilLog2(_)
CeilLog2(n) == IF n <= 1 THEN 0 ELSE 1 + CeilLog2((n + 1) \div 2)

RECURSIVE bits_len(_)
bits_len(n) == IF n = 0 THEN 0 ELSE AsU32(bits_len(n - 1) + CeilLog2(n))

BooleanConstraint(c) == Expression(<< <<1, c, c>> >>, << <<FNeg(1), c>> >>, 0)

Evens(s) == [i \in 1 .. (Len(s) \div 2) |-> s[2 * i - 1]]
Odds(s) == [i \in 1 .. (Len(s) \div 2) |-> s[2 * i]]
Firsts(pairs) == [i \in 1 .. Len(pairs) |-> pairs[i][1]]
Seconds(pairs) == [i \in 1 .. Len(pairs) |-> pairs[i][2]]
RECURSIVE Flatten(_)
Flatten(pairs) == IF pairs = <<>> THEN <<>> ELSE Head(pairs) \o Flatten(Tail(pairs))
Drop(s, k) == SubSeq(s, k + 1, Len(s))
Last(s) == s[Len(s)]

\* one 2x2 switch with control bit c on (a1, a2): b1 = a1 + q, b2 = a2 - q, q = c*(a2 - a1)
switch(self, c, a1, a2) ==
    Then(mul_with_witness(assert_is_zero(self, BooleanConstraint(c)),
                          ExprFromWitness(c), ExprSub(a2, a1)),
         LAMBDA q : IF q.outcome # "ok" THEN q
                    ELSE Ok(q.self, <<ExprAdd(q.ret, a1), ExprSub(a2, q.ret)>>))

\* switches on the pairs (firsts[i], seconds[i]), i < count, with bits[offset + i]
RECURSIVE switches(_, _, _, _, _, _)
switches(self, bits, offset, count, firsts, seconds) ==
    IF count = 0 THEN Ok(self, <<>>)
    ELSE Then(switches(self, bits, offset, count - 1, firsts, seconds),
              LAMBDA head :
                  IF head.outcome # "ok" THEN head
                  ELSE Then(switch(head.self, At(bits, offset + count - 1),
                                   At(firsts, count - 1), At(seconds, count - 1)),
                            LAMBDA sw : IF sw.outcome # "ok" THEN sw
                                        ELSE Ok(sw.self, Append(head.ret, sw.ret))))

\* the output of the two sub-networks, switched pairwise; the last wires pass through
layer_out(n, outs, out1, out2) ==
    Flatten(outs) \o (IF n % 2 = 0 THEN <<Last(out1)>> ELSE <<>>) \o <<Last(out2)>>

RECURSIVE permutation_layer(_, _, _)
permutation_layer(self, in_expr, bits) ==
    LET n == Len(in_expr)
        n1 == n \div 2
        n2 == (n - 1) \div 2
        odd == IF n % 2 = 1 THEN <<Last(in_expr)>> ELSE <<>>
    IN  IF n = 1 THEN Ok(self, [conf |-> <<>>, out |-> in_expr])
        ELSE Then(switches(self, bits, 0, n1, Evens(in_expr), Odds(in_expr)),
               LAMBDA ins :
                 IF ins.outcome # "ok" THEN ins
                 ELSE Then(permutation_layer(ins.self, Firsts(ins.ret), Drop(bits, n1 + n2)),
                   LAMBDA l1 :
                     IF l1.outcome # "ok" THEN l1
                     ELSE Then(permutation_layer(l1.self, Seconds(ins.ret) \o odd,
                                   Drop(bits, n1 + n2 + Len(l1.ret.conf))),
                       LAMBDA l2 :
                         IF l2.outcome # "ok" THEN l2
                         ELSE Then(switches(l2.self, bits, n1, n2, l1.ret.out, l2.ret.out),
                           LAMBDA outs :
                             IF outs.outcome # "ok" THEN outs
                             ELSE Ok(outs.self,
                                     [conf |-> SubSeq(bits, 1, n1 + n2)
                                                 \o l1.ret.conf \o l2.ret.conf,
                                      out |-> layer_out(n, outs.ret, l1.ret.out,
                                                        l2.ret.out)])))))

\* for (b, o) in b.iter().zip(out_expr): the shorter list ends the loop
RECURSIVE constrain_outputs(_, _, _)
constrain_outputs(self, b, out_expr) ==
    IF b = <<>> \/ out_expr = <<>> THEN self
    ELSE constrain_outputs(push_opcode(self, AssertZero(ExprSub(Head(b), Head(out_expr)))),
                           Tail(b), Tail(out_expr))

RECURSIVE SingleTuples(_)
SingleTuples(s) == IF s = <<>> THEN <<>> ELSE << <<Head(s)>> >> \o SingleTuples(Tail(s))

\* a faulty permutation that pushes the directive after the network;
\* PermutationShape must tell it from permutation
permutation_directive_late(self, in_expr, out_expr) ==
    Then(next_witnesses(self, bits_len(Len(in_expr))),
      LAMBDA bits :
        Then(permutation_layer(bits.self, in_expr, bits.ret),
          LAMBDA layer :
            IF layer.outcome # "ok" THEN layer
            ELSE Ok(constrain_outputs(
                        push_opcode(layer.self,
                            Directive([name |-> "PermutationSort",
                                       inputs |-> SingleTuples(in_expr), tuple |-> 1,
                                       bits |-> bits.ret, sort_by |-> <<0>>])),
                        layer.ret.out, out_expr),
                    <<>>)))

permutation(self, in_expr, out_expr) ==
    Then(next_witnesses(self, bits_len(Len(in_expr))),
      LAMBDA bits :
        Then(permutation_layer(
                 push_opcode(bits.self,
                     Directive([name |-> "PermutationSort",
                                inputs |-> SingleTuples(in_expr), tuple |-> 1,
                                bits |-> bits.ret, sort_by |-> <<0>>])),
                 in_expr, bits.ret),
          LAMBDA layer :
            IF layer.outcome # "ok" THEN layer
            ELSE Ok(constrain_outputs(layer.self, layer.ret.out, out_expr), <<>>)))

(***************************************************************************)
(* The arguments the callers pass.  An expression or a witness handed to   *)
(* the builder mentions only witnesses the allocator has already returned. *)
(***************************************************************************)
W0 == ExprFromWitness(0)
W1 == ExprFromWitness(1)
Const0 == ExprFromField(0)
Const2 == ExprFromField(2)
W0Plus3 == Expression(<<>>, << <<1, 0>> >>, 3)
NegW0 == Expression(<<>>, << <<FNeg(1), 0>> >>, 0)
TwoW1 == Expression(<<>>, << <<2, 1>> >>, 0)
W0TimesW1 == Expression(<< <<1, 0, 1>> >>, <<>>, 0)
W0SquaredPlusW1 == Expression(<< <<1, 0, 0>> >>, << <<1, 1>> >>, 0)

ExprInputs == {Const2, W0, W1, W0Plus3, NegW0, TwoW1, W0TimesW1, W0SquaredPlusW1}
ExprCore == {Const2, W0, W0Plus3, W0TimesW1}

Allocated(self) ==
    IF is_some(self.current_witness_index)
    THEN 0 .. unwrap(self.current_witness_index)
    ELSE {}
Usable(e) == ExprWitnesses(e) \subseteq Allocated(Self)

CallStacks == {<<>>, <<1>>, <<1, 2>>}

\* compiled brillig programs: bytecode, locations and assertion messages per instruction
BrilligPrograms ==
    {GeneratedBrillig("nop", EmptyMap, EmptyMap),
     GeneratedBrillig("call", (0 :> <<3>>) @@ (2 :> <<4>>), (2 :> "assert failed"))}

\* input groups of the given lengths; every item names witness 0
GroupOf(len, base) == [i \in 1 .. len |-> FunctionInput(0, base + i)]
RECURSIVE GroupsOf(_, _)
GroupsOf(shape, base) ==
    IF shape = <<>> THEN <<>>
    ELSE <<GroupOf(Head(shape), base)>> \o GroupsOf(Tail(shape), base + Head(shape))

InputShapes ==
    {<<>>, <<1>>, <<2>>, <<1, 1>>, <<3, 1>>, <<1, 1, 1, 1>>, <<25>>, <<16, 8>>}
OutputCounts == {0, 1, 2, 8, 25, 32}
ConstantLists == {<<>>, <<1, 2>>}

RadixInputs == {2, 4, 6, 8, 16}
BitSizes == 1 .. max_num_bits + 1

RECURSIVE SeqsUpTo(_, _)
SeqsUpTo(S, n) ==
    IF n = 0 THEN {<<>>}
    ELSE SeqsUpTo(S, n - 1)
            \cup {Append(q, x) : q \in {p \in SeqsUpTo(S, n - 1) : Len(p) = n - 1}, x \in S}

(***************************************************************************)
(* The state machine: one action per public call.  `last` records the call *)
(* just made: its name and arguments, what it returned, and the builder    *)
(* as it was before the call.                                              *)
(***************************************************************************)
Init ==
    /\ current_witness_index = GeneratedAcirDefault.current_witness_index
    /\ opcodes = GeneratedAcirDefault.opcodes
    /\ return_witnesses = GeneratedAcirDefault.return_witnesses
    /\ input_witnesses = GeneratedAcirDefault.input_witnesses
    /\ locations = GeneratedAcirDefault.locations
    /\ call_stack = GeneratedAcirDefault.call_stack
    /\ assert_messages = GeneratedAcirDefault.assert_messages
    /\ warnings = GeneratedAcirDefault.warnings
    /\ witness_log = GeneratedAcirDefault.witness_log
    /\ last = [op |-> "new", args |-> <<>>, ret |-> <<>>, outcome |-> "ok",
               error |-> NoError, pre |-> GeneratedAcirDefault]
    /\ ncalls = 0

\* a panic ends the program; otherwise the caller may go on
CanCall == last.outcome # "panic"

Install(self) ==
    /\ current_witness_index' = self.current_witness_index
    /\ opcodes' = self.opcodes
    /\ return_witnesses' = self.return_witnesses
    /\ input_witnesses' = self.input_witnesses
    /\ locations' = self.locations
    /\ call_stack' = self.call_stack
    /\ assert_messages' = self.assert_messages
    /\ warnings' = self.warnings
    /\ witness_log' = self.witness_log

Call(op, args, result) ==
    \E r \in {result} :
        /\ Install(r.self)
        /\ last' = [op |-> op, args |-> args, ret |-> r.ret, outcome |-> r.outcome,
                    error |-> r.error, pre |-> Self]
        /\ ncalls' = ncalls + 1

\* the caller stamps the call stack of the instruction being processed
SetCallStack ==
    /\ CanCall
    /\ \E s \in CallStacks \ {call_stack} :
           Call("set_call_stack", <<s>>, Ok([Self EXCEPT !.call_stack = s], <<>>))

CurrentWitnessIndex ==
    CanCall /\ Call("current_witness_index", <<>>, Ok(Self, current_witness_index_get(Self)))

NextWitnessIndex == CanCall /\ Call("next_witness_index", <<>>, next_witness_index(Self))

TakeOpcodes == CanCall /\ Call("take_opcodes", <<>>, take_opcodes(Self))

AssertIsZeroWith(exprs) ==
    /\ CanCall
    /\ \E e \in exprs :
           Usable(e) /\ Call("assert_is_zero", <<e>>, Ok(assert_is_zero(Self, e), <<>>))

\* the witness a reduction has just returned, as an expression
Reduced ==
    IF last.op = "get_or_create_witness" THEN {ExprFromWitness(last.ret)} ELSE {}

GetOrCreateWitnessWith(exprs) ==
    /\ CanCall
    /\ \E e \in exprs \cup Reduced :
           Usable(e) /\ Call("get_or_create_witness", <<e>>, get_or_create_witness(Self, e))

CreateWitnessForExpressionWith(exprs) ==
    /\ CanCall
    /\ \E e \in exprs :
           Usable(e) /\ Call("create_witness_for_expression", <<e>>,
                             create_witness_for_expression(Self, e))

PushReturnWitness ==
    /\ CanCall
    /\ \E w \in Allocated(Self) \cap {0, 1} :
           Call("push_return_witness", <<w>>, push_return_witness(Self, w))

Brillig ==
    /\ CanCall
    /\ \E g \in BrilligPrograms :
           Call("brillig", <<g>>, Ok(brillig(Self, None, g, <<>>, <<>>), <<>>))

BrilligInverseWith(exprs) ==
    /\ CanCall
    /\ \E e \in exprs :
           Usable(e) /\ Call("brillig_inverse", <<e>>, brillig_inverse(Self, e))

IsEqualWith(lefts, rights) ==
    /\ CanCall
    /\ \E lhs \in lefts, rhs \in rights :
           /\ Usable(lhs) /\ Usable(rhs)
           /\ Call("is_equal", <<lhs, rhs>>, is_equal(Self, lhs, rhs))

RangeConstraintWith(sizes) ==
    /\ CanCall
    /\ \E w \in Allocated(Self) \cap {0, 1}, num_bits \in sizes :
           Call("range_constraint", <<w, num_bits>>, range_constraint(Self, w, num_bits))

RadixLeDecomposeWith(exprs, radixes, counts, sizes) ==
    /\ CanCall
    /\ \E e \in exprs, radix \in radixes, limb_count \in counts, bit_size \in sizes :
           /\ Usable(e)
           /\ Call("radix_le_decompose", <<e, radix, limb_count, bit_size>>,
                   radix_le_decompose(Self, e, radix, limb_count, bit_size))

MulWithWitnessWith(lefts, rights) ==
    /\ CanCall
    /\ \E lhs \in lefts, rhs \in rights :
           /\ Usable(lhs) /\ Usable(rhs)
           /\ Call("mul_with_witness", <<lhs, rhs>>, mul_with_witness(Self, lhs, rhs))

CallBlackBoxWith(names, shapes, constants, counts) ==
    /\ CanCall
    /\ \E name \in names, shape \in shapes, ci \in constants, output_count \in counts :
           /\ (shape = <<>> \/ 0 \in Allocated(Self))
           /\ Call("call_black_box", <<name, GroupsOf(shape, 0), ci, ci, output_count>>,
                   call_black_box(Self, name, GroupsOf(shape, 0), ci, ci, output_count))

PermutationWith(exprs) ==
    /\ CanCall
    /\ \E in_expr \in SeqsUpTo(exprs, MaxPerm) \ {<<>>}, out_expr \in SeqsUpTo(exprs, MaxPerm) :
           /\ \A i \in 1 .. Len(in_expr) : Usable(in_expr[i])
           /\ \A i \in 1 .. Len(out_expr) : Usable(out_expr[i])
           /\ Call("permutation", <<in_expr, out_expr>>, permutation(Self, in_expr, out_expr))

(***************************************************************************)
(* Spec: every public call, on a few arguments each.                       *)
(***************************************************************************)
Next ==
    \/ ncalls < MaxCalls /\ SetCallStack
    \/ ncalls < MaxCalls /\ CurrentWitnessIndex
    \/ ncalls < MaxCalls /\ NextWitnessIndex
    \/ ncalls < MaxCalls /\ TakeOpcodes
    \/ ncalls < MaxCalls /\ AssertIsZeroWith({Const2, W0TimesW1})
    \/ ncalls < MaxCalls /\ GetOrCreateWitnessWith(ExprCore \cup {NegW0})
    \/ ncalls < MaxCalls /\ CreateWitnessForExpressionWith({W0, W0TimesW1})
    \/ ncalls < MaxCalls /\ PushReturnWitness
    \/ ncalls < MaxCalls /\ Brillig
    \/ ncalls < MaxCalls /\ BrilligInverseWith({W0})
    \/ ncalls < MaxCalls /\ IsEqualWith({W0, W0Plus3}, {Const0})
    \/ ncalls < MaxCalls /\ RangeConstraintWith({1, max_num_bits, max_num_bits + 1})
    \/ ncalls < MaxCalls /\ RadixLeDecomposeWith({W0}, {2, 4}, {MaxLimbs}, {1})
    \/ ncalls < MaxCalls /\ MulWithWitnessWith({W0TimesW1}, {W0, W0TimesW1})
    \/ ncalls < MaxCalls /\ CallBlackBoxWith({"AND", "Keccak256"}, {<<1, 1>>}, {<<>>}, {1, 32})
    \/ ncalls < MaxCalls /\ PermutationWith({W0})

Spec == Init /\ [][Next]_vars

(***************************************************************************)
(* SpecGadgets: the algebraic gadgets on every expression of ExprInputs.   *)
(***************************************************************************)
NextGadgets ==
    \/ ncalls < MaxGadgetCalls /\ NextWitnessIndex
    \/ ncalls < MaxGadgetCalls /\ IsEqualWith(ExprInputs, {Const0, W1})
    \/ ncalls < MaxGadgetCalls /\ RangeConstraintWith(BitSizes)
    \/ ncalls < MaxGadgetCalls
           /\ RadixLeDecomposeWith({W0, Const2}, RadixInputs, 0 .. MaxLimbs, BitSizes)
    \/ ncalls < MaxGadgetCalls /\ MulWithWitnessWith(ExprInputs, ExprInputs)

SpecGadgets == Init /\ [][NextGadgets]_vars

(***************************************************************************)
(* SpecIsZero: the equality gadget alone, on every expression of           *)
(* ExprInputs.                                                             *)
(***************************************************************************)
NextIsZero ==
    \/ ncalls < MaxGadgetCalls /\ NextWitnessIndex
    \/ ncalls < MaxGadgetCalls /\ IsEqualWith(ExprInputs, {Const0, W1})

SpecIsZero == Init /\ [][NextIsZero]_vars

(***************************************************************************)
(* SpecBlackBox: call_black_box on every name, input shape and count.      *)
(***************************************************************************)
NextBlackBox ==
    \/ ncalls < MaxBlackBoxCalls /\ NextWitnessIndex
    \/ ncalls < MaxBlackBoxCalls
           /\ CallBlackBoxWith(BlackBoxFunc, InputShapes, ConstantLists, OutputCounts)

SpecBlackBox == Init /\ [][NextBlackBox]_vars

(***************************************************************************)
(* SpecPermutationWide: permutation on lists of up to four expressions,    *)
(* where the network has several layers.                                   *)
(***************************************************************************)
PermutationLists ==
    {<<W0>>, <<Const2>>, <<W1, W0>>, <<Const2, W0>>, <<W0, W1, Const2>>,
     <<Const2, W0, W1>>, <<W0, W1, W0Plus3, Const2>>, <<Const2, W0Plus3, W1, W0>>}

PermutationOn(ins, outs) ==
    /\ CanCall
    /\ \E in_expr \in ins, out_expr \in outs :
           /\ \A i \in 1 .. Len(in_expr) : Usable(in_expr[i])
           /\ \A i \in 1 .. Len(out_expr) : Usable(out_expr[i])
           /\ Call("permutation", <<in_expr, out_expr>>, permutation(Self, in_expr, out_expr))

NextPermutationWide ==
    \/ ncalls < MaxPermutationCalls /\ NextWitnessIndex
    \/ ncalls < MaxPermutationCalls
           /\ PermutationOn(PermutationLists, PermutationLists \cup {<<>>})

SpecPermutationWide == Init /\ [][NextPermutationWide]_vars

(***************************************************************************)
(* SpecPermutation: permutation on lists of witnesses and constants.       *)
(***************************************************************************)
NextPermutation ==
    \/ ncalls < MaxPermutationCalls /\ NextWitnessIndex
    \/ ncalls < MaxPermutationCalls /\ PermutationWith({W0, W1, Const2})

SpecPermutation == Init /\ [][NextPermutation]_vars

(***************************************************************************)
(* What the last call did: the opcodes it appended, the witnesses it       *)
(* allocated, and whether an assignment of the witnesses satisfies         *)
(* opcodes.  A Brillig opcode and a directive are hints to the solver:     *)
(* they constrain nothing.                                                 *)
(***************************************************************************)
NewOpcodes == SubSeq(opcodes, Len(last.pre.opcodes) + 1, Len(opcodes))
NewWitnesses == Allocated(Self) \ Allocated(last.pre)
Appended == Len(opcodes) >= Len(last.pre.opcodes)
               /\ SubSeq(opcodes, 1, Len(last.pre.opcodes)) = last.pre.opcodes

OpcodeHolds(op, a) ==
    CASE op.kind = "AssertZero" -> Eval(op.expr, a) = 0
      [] op.kind = "BlackBoxFuncCall" /\ op.call.name = "RANGE" ->
             a[op.call.input.witness] < Pow(2, op.call.input.num_bits)
      [] OTHER -> TRUE

Satisfied(ops, a) == \A i \in 1 .. Len(ops) : OpcodeHolds(ops[i], a)

\* the assignment that is vy on y, f on the witnesses of DOMAIN f, a on those of
\* DOMAIN a, and 0 elsewhere
Assignment(a, f, y, vy) ==
    [w \in Allocated(Self) |->
        IF w = y THEN vy
        ELSE IF w \in DOMAIN f THEN f[w]
        ELSE IF w \in DOMAIN a THEN a[w]
        ELSE 0]

(***************************************************************************)
(* C1: the first witness allocated is 0 and each later one is the previous *)
(* one plus one, whichever call allocates it, so no witness is handed out  *)
(* twice; next_witness_index returns the witness it has just allocated.    *)
(***************************************************************************)
WitnessMonotonicity ==
    /\ \A i \in 1 .. Len(witness_log) : witness_log[i] = i - 1
    /\ last.op = "next_witness_index" =>
           /\ witness_log = Append(last.pre.witness_log, last.ret)
           /\ current_witness_index = Some(last.ret)

\* witnesses allocated by the caller and then inside a gadget
WitnessMonotonicityReached ==
    /\ last.op \in {"is_equal", "radix_le_decompose", "call_black_box", "permutation"}
    /\ Len(witness_log) >= 3
    /\ Len(last.pre.witness_log) >= 1

(***************************************************************************)
(* C2: after is_equal(lhs, rhs), with E = lhs - rhs: for every value of    *)
(* the witnesses of E and every value of the returned witness y, the       *)
(* opcodes the call emitted can be satisfied by some values of the other   *)
(* fresh witnesses (z, and t when one is allocated) iff (y = 1 and E = 0)  *)
(* or (y = 0 and E # 0); in every satisfying assignment t is E or -E.      *)
(***************************************************************************)
IsZeroE == ExprSub(last.args[1], last.args[2])
IsZeroT == NewOpcodes[Len(NewOpcodes)].expr.mul_terms[1][2]

\* the assignments that extend a and vy to the other fresh witnesses and satisfy ops
IsZeroSolutions(ops, a, vy) ==
    {full \in {Assignment(a, f, last.ret, vy) :
                  f \in [NewWitnesses \ {last.ret} -> FieldElement]} :
        Satisfied(ops, full)}

IsZeroSoundness ==
    (last.op = "is_equal" /\ last.outcome = "ok") =>
        \A ops \in {NewOpcodes}, E \in {IsZeroE}, t \in {IsZeroT} :
            \A a \in [ExprWitnesses(E) -> FieldElement], vy \in FieldElement :
                \A e \in {Eval(E, Assignment(a, <<>>, last.ret, vy))},
                   solutions \in {IsZeroSolutions(ops, a, vy)} :
                    /\ solutions # {} <=> ((vy = 1 /\ e = 0) \/ (vy = 0 /\ e # 0))
                    /\ \A full \in solutions : full[t] \in {e, FNeg(e)}

\* the gadget on an expression that is neither a witness nor the negation of one
IsZeroSoundnessReached ==
    /\ last.op = "is_equal" /\ last.outcome = "ok"
    /\ last.args = <<W0TimesW1, W1>>
    /\ Cardinality(NewWitnesses) = 3

(***************************************************************************)
(* C4: every Acir(i) key of locations has i < opcodes.len(), and every     *)
(* Brillig key has acir_index < opcodes.len() with a Brillig opcode at     *)
(* that position.  LocationCompleteness states it of every reachable       *)
(* state.  LocationsKeptComplete states what the code keeps: it holds      *)
(* after construction and every call other than take_opcodes preserves it  *)
(* (take_opcodes empties opcodes and leaves locations as they are).        *)
(***************************************************************************)
LocationComplete(self) ==
    \A k \in DOMAIN self.locations :
        /\ k[2] < Len(self.opcodes)
        /\ k[1] = "Brillig" => self.opcodes[k[2] + 1].kind = "Brillig"

LocationCompleteness == LocationComplete(Self)

LocationsKeptComplete ==
    /\ LocationComplete(GeneratedAcirDefault)
    /\ (last.op # "take_opcodes" /\ LocationComplete(last.pre)) => LocationComplete(Self)
    /\ last.op = "take_opcodes" =>
           /\ opcodes = <<>> /\ last.ret = last.pre.opcodes
           /\ locations = last.pre.locations

\* an opcode and a brillig program located, and one more call made
LocationsKeptCompleteReached ==
    /\ last.op # "take_opcodes"
    /\ LocationComplete(last.pre)
    /\ \E k \in DOMAIN last.pre.locations : k[1] = "Acir"
    /\ \E k \in DOMAIN locations : k[1] = "Brillig"
    /\ Len(opcodes) > Len(last.pre.opcodes)

(***************************************************************************)
(* C5: get_or_create_witness on an expression that is exactly 1*w + 0      *)
(* returns w and leaves the builder as it was: no opcode pushed, no        *)
(* witness allocated, locations unchanged.  The expression may be the      *)
(* result of the reduction made just before.                               *)
(***************************************************************************)
IsWitnessForm(e) ==
    /\ e.mul_terms = <<>>
    /\ Len(e.linear_combinations) = 1
    /\ e.linear_combinations[1][1] = 1
    /\ e.q_c = 0

ReductionIdempotence ==
    (last.op = "get_or_create_witness" /\ IsWitnessForm(last.args[1])) =>
        /\ last.outcome = "ok"
        /\ last.ret = last.args[1].linear_combinations[1][2]
        /\ Self = last.pre

\* the reduction of its own result, in a builder that holds opcodes and locations
ReductionIdempotenceReached ==
    /\ last.op = "get_or_create_witness"
    /\ last.args[1] = ExprFromWitness(last.ret)
    /\ last.args[1] \notin ExprCore
    /\ opcodes # <<>>
    /\ DOMAIN locations # {}

(***************************************************************************)
(* C6: with the arities of the table of black-box functions, a call whose  *)
(* total input count differs from a fixed input arity panics with "wrong   *)
(* inputs", and otherwise one whose output count differs from a fixed      *)
(* output arity panics with "wrong outputs"; in both cases the builder is  *)
(* as it was before the call.  A count whose entry is variable, or equal   *)
(* to the entry, does not raise that error.                                *)
(***************************************************************************)
\* name :> <<input arity, output arity>>, None for a variable one
ArityTable ==
    [name \in BlackBoxFunc |->
        CASE name \in {"AND", "XOR"} -> <<Some(2), Some(1)>>
          [] name = "RANGE" -> <<Some(1), Some(0)>>
          [] name \in {"SHA256", "Blake2s", "Blake3", "Keccak256"} -> <<None, Some(32)>>
          [] name = "Keccakf1600" -> <<Some(25), Some(25)>>
          [] name = "Sha256Compression" -> <<Some(24), Some(8)>>
          [] name = "PedersenCommitment" -> <<None, Some(2)>>
          [] name = "PedersenHash" -> <<None, Some(1)>>
          [] name \in {"SchnorrVerify", "EcdsaSecp256k1", "EcdsaSecp256r1"} ->
                 <<None, Some(1)>>
          [] name = "FixedBaseScalarMul" -> <<Some(2), Some(2)>>
          [] name = "EmbeddedCurveAdd" -> <<Some(4), Some(2)>>
          [] name \in {"Poseidon2Permutation", "RecursiveAggregation"} -> <<None, None>>
          [] name \in {"BigIntAdd", "BigIntSub", "BigIntMul", "BigIntDiv"} ->
                 <<Some(0), Some(0)>>
          [] name = "BigIntFromLeBytes" -> <<None, Some(0)>>
          [] name = "BigIntToLeBytes" -> <<Some(0), None>>]

WrongInputs == "Tried to call black box function with wrong inputs"
WrongOutputs == "Tried to call black box function with wrong outputs"
Mismatch(arity, count) == is_some(arity) /\ unwrap(arity) # count

ArityEnforcement ==
    last.op = "call_black_box" =>
        \A arity \in {ArityTable[last.args[1]]}, input_count \in {SumLen(last.args[2])} :
            /\ Mismatch(arity[1], input_count) =>
                   /\ last.outcome = "panic" /\ last.error.type = WrongInputs
                   /\ Self = last.pre
            /\ (~Mismatch(arity[1], input_count) /\ Mismatch(arity[2], last.args[5])) =>
                   /\ last.outcome = "panic" /\ last.error.type = WrongOutputs
                   /\ Self = last.pre
            /\ ~Mismatch(arity[1], input_count) => last.error.type # WrongInputs
            /\ ~Mismatch(arity[2], last.args[5]) => last.error.type # WrongOutputs

\* a variable input arity let through and a fixed output arity enforced, on a
\* builder that already holds a witness
ArityEnforcementReached ==
    /\ last.op = "call_black_box"
    /\ last.args[1] = "SHA256" /\ SumLen(last.args[2]) = 25 /\ last.args[5] = 25
    /\ last.outcome = "panic" /\ last.error.type = WrongOutputs
    /\ is_some(last.pre.current_witness_index)

(***************************************************************************)
(* C7: after a successful radix_le_decompose(E, radix, limb_count,         *)
(* bit_size) with bit_size < max_num_bits: for every value v of E with     *)
(* v < radix^limb_count, every assignment of the limb witnesses that       *)
(* satisfies the opcodes the call emitted gives limb i the i-th            *)
(* little-endian base-radix digit of v.                                    *)
(***************************************************************************)
NoWitness == 0 - 1
Digit(v, radix, i) == (v \div Pow(radix, i)) % radix

RadixRoundTrip ==
    (last.op = "radix_le_decompose" /\ last.outcome = "ok"
        /\ last.args[4] < max_num_bits) =>
        \A ops \in {NewOpcodes}, E \in {last.args[1]}, radix \in {last.args[2]} :
            \A a \in [ExprWitnesses(E) -> FieldElement] :
                \A v \in {Eval(E, Assignment(a, <<>>, NoWitness, 0))} :
                    v < Pow(radix, last.args[3]) =>
                        \A f \in [NewWitnesses -> FieldElement] :
                            Satisfied(ops, Assignment(a, f, NoWitness, 0)) =>
                                \A i \in 1 .. Len(last.ret) :
                                    f[last.ret[i]] = Digit(v, radix, i - 1)

(***************************************************************************)
(* C8: after permutation(in, out): for every value of the witnesses of in  *)
(* and out, the opcodes the call emitted can be satisfied by some values   *)
(* of the control bits iff the values of out are those of in in some       *)
(* order; lists of different lengths are never accepted.                   *)
(***************************************************************************)
RECURSIVE SeqWitnesses(_)
SeqWitnesses(es) ==
    IF es = <<>> THEN {} ELSE ExprWitnesses(Head(es)) \cup SeqWitnesses(Tail(es))

Values(es, a) == [i \in 1 .. Len(es) |-> Eval(es[i], a)]
IsPermutationOf(s, t) ==
    /\ Len(s) = Len(t)
    /\ \A x \in FieldElement :
           Cardinality({i \in 1 .. Len(s) : s[i] = x})
               = Cardinality({i \in 1 .. Len(t) : t[i] = x})

PermutationCorrectness ==
    (last.op = "permutation" /\ last.outcome = "ok") =>
        \A ops \in {NewOpcodes}, in_expr \in {last.args[1]}, out_expr \in {last.args[2]} :
            \A a \in [SeqWitnesses(in_expr \o out_expr) -> FieldElement] :
                (\E f \in [NewWitnesses -> FieldElement] :
                     Satisfied(ops, Assignment(a, f, NoWitness, 0)))
                <=> \A inputs \in {Assignment(a, <<>>, NoWitness, 0)} :
                        IsPermutationOf(Values(out_expr, inputs), Values(in_expr, inputs))

(***************************************************************************)
(* C9: is_equal(w0 + 3, w1).  ScenarioATwoWitnesses: the call allocates    *)
(* exactly two witnesses, pushes exactly one Brillig opcode and exactly    *)
(* two AssertZero opcodes and returns the last witness allocated.          *)
(* ScenarioAThreeWitnesses, what the code does: w0 + 3 - w1 is neither a   *)
(* witness nor the negation of one, so the call allocates three            *)
(* consecutive witnesses t, z, y and appends AssertZero(-(w0 + 3 - w1) -   *)
(* t), the Brillig inverse of t into z, AssertZero(t*z + y - 1) and        *)
(* AssertZero(t*y), in this order; it returns y.                           *)
(***************************************************************************)
IsScenarioA == last.op = "is_equal" /\ last.args = <<W0Plus3, W1>>
CountKind(ops, kind) == Cardinality({i \in 1 .. Len(ops) : ops[i].kind = kind})

ScenarioATwoWitnesses ==
    IsScenarioA =>
        /\ Cardinality(NewWitnesses) = 2
        /\ CountKind(NewOpcodes, "Brillig") = 1
        /\ CountKind(NewOpcodes, "AssertZero") = 2
        /\ last.ret = unwrap(current_witness_index)

ScenarioAThreeWitnesses ==
    IsScenarioA =>
        \E t \in {Len(last.pre.witness_log)} :
            \E z \in {t + 1}, y \in {t + 2} :
                /\ last.outcome = "ok"
                /\ NewWitnesses = {t, z, y}
                /\ last.ret = y
                /\ Appended
                /\ NewOpcodes =
                     << AssertZero(Expression(<<>>,
                            << <<FNeg(1), 0>>, <<1, 1>>, <<FNeg(1), t>> >>, FNeg(3))),
                        AcvmBrillig(<<BrilligInputsSingle(ExprFromWitness(t))>>,
                                    <<BrilligOutputsSimple(z)>>, "directive_invert",
                                    Some(ExprOne)),
                        AssertZero(Expression(<< <<1, t, z>> >>, << <<1, y>> >>, FNeg(1))),
                        AssertZero(Expression(<< <<1, t, y>> >>, <<>>, 0)) >>

\* the scenario, on a builder that holds more than the two input witnesses
ScenarioAReached ==
    /\ IsScenarioA /\ last.outcome = "ok"
    /\ Len(last.pre.witness_log) = 2

(***************************************************************************)
(* C10: a successful radix_le_decompose(E, radix, n, bit_size) allocates   *)
(* the next n witnesses and returns them in order; it appends n + 2        *)
(* opcodes: the ToLeRadix directive of E with those witnesses as outputs,  *)
(* then for each limb in order RANGE(limb, bit_size), then one AssertZero  *)
(* whose expression is E - sum(limb_i * radix^i) under every assignment.   *)
(***************************************************************************)
RECURSIVE Recompose(_, _, _, _)
Recompose(limbs, radix, i, a) ==
    IF i > Len(limbs) THEN 0
    ELSE FAdd(FMul(a[limbs[i]], Pow(radix, i - 1) % FieldModulus),
              Recompose(limbs, radix, i + 1, a))

RadixOpcodes ==
    (last.op = "radix_le_decompose" /\ last.outcome = "ok") =>
        \A E \in {last.args[1]}, radix \in {last.args[2]}, n \in {last.args[3]},
           bit_size \in {last.args[4]}, first \in {Len(last.pre.witness_log)},
           ops \in {NewOpcodes} :
            /\ radix = Pow(2, bit_size)
            /\ last.ret = [i \in 1 .. n |-> first + i - 1]
            /\ NewWitnesses = first .. (first + n - 1)
            /\ Appended
            /\ Len(ops) = n + 2
            /\ ops[1] = Directive([name |-> "ToLeRadix", a |-> E, b |-> last.ret,
                                   radix |-> radix])
            /\ \A i \in 1 .. n :
                   ops[1 + i] = BlackBoxFuncCall([name |-> "RANGE",
                                    input |-> FunctionInput(last.ret[i], bit_size)])
            /\ ops[n + 2].kind = "AssertZero"
            /\ \A a \in [ExprWitnesses(E) -> FieldElement],
                  f \in [NewWitnesses -> FieldElement] :
                   \A full \in {Assignment(a, f, NoWitness, 0)} :
                       Eval(ops[n + 2].expr, full)
                           = FAdd(Eval(E, full), FNeg(Recompose(last.ret, radix, 1, full)))

\* the largest decomposition, on a builder that already holds opcodes
RadixOpcodesReached ==
    /\ last.op = "radix_le_decompose" /\ last.outcome = "ok"
    /\ last.args = <<W0, 4, MaxLimbs, 2>>
    /\ last.pre.opcodes # <<>>

(***************************************************************************)
(* C11: range_constraint(w, num_bits) fails iff num_bits >= max_num_bits.  *)
(* A failing call returns InvalidRangeConstraint with max_num_bits and the *)
(* call stack of the builder and leaves the builder as it was.  A          *)
(* successful call appends the one opcode RANGE {w, num_bits}, allocates   *)
(* no witness, and changes locations only by the entry of that opcode.     *)
(***************************************************************************)
RangeConstraintContract ==
    last.op = "range_constraint" =>
        \A w \in {last.args[1]}, num_bits \in {last.args[2]} :
            /\ last.outcome \in {"ok", "err"}
            /\ last.outcome = "err" <=> num_bits >= max_num_bits
            /\ last.outcome = "err" =>
                   /\ last.error = [type |-> "InvalidRangeConstraint",
                                    num_bits |-> max_num_bits,
                                    call_stack |-> last.pre.call_stack]
                   /\ Self = last.pre
            /\ last.outcome = "ok" =>
                   /\ opcodes = Append(last.pre.opcodes,
                          [kind |-> "BlackBoxFuncCall",
                           call |-> [name |-> "RANGE",
                                     input |-> [witness |-> w, num_bits |-> num_bits]]])
                   /\ current_witness_index = last.pre.current_witness_index
                   /\ witness_log = last.pre.witness_log
                   /\ \A k \in (DOMAIN locations) \cup (DOMAIN last.pre.locations) :
                          k # Acir(Len(last.pre.opcodes)) =>
                              /\ k \in DOMAIN locations /\ k \in DOMAIN last.pre.locations
                              /\ locations[k] = last.pre.locations[k]

\* the failing call at exactly max_num_bits, under a call stack, on a builder that
\* holds opcodes and locations
RangeConstraintContractReached ==
    /\ last.op = "range_constraint" /\ last.outcome = "err"
    /\ last.args[2] = max_num_bits
    /\ call_stack # <<>>
    /\ opcodes # <<>> /\ DOMAIN locations # {}

(***************************************************************************)
(* C12: mul_with_witness(E1, E2) with E1 of degree two and E2 structurally *)
(* equal to E1 allocates exactly one witness w, pushes exactly the one     *)
(* opcode AssertZero(E1 - w), and returns the expression w * w.            *)
(***************************************************************************)
IsScenarioD ==
    /\ last.op = "mul_with_witness"
    /\ last.args[1] = last.args[2]
    /\ ~is_linear(last.args[1])

SquareReduction ==
    IsScenarioD =>
        \E E1 \in {last.args[1]}, w \in {Len(last.pre.witness_log)} :
            /\ last.outcome = "ok"
            /\ NewWitnesses = {w}
            /\ current_witness_index = Some(w)
            /\ Appended
            /\ NewOpcodes =
                 << [kind |-> "AssertZero",
                     expr |-> [mul_terms |-> E1.mul_terms,
                               linear_combinations |->
                                   E1.linear_combinations \o << <<FNeg(1), w>> >>,
                               q_c |-> E1.q_c]] >>
            /\ last.ret = [mul_terms |-> << <<1, w, w>> >>,
                           linear_combinations |-> <<>>,
                           q_c |-> 0]

\* the square of an expression that has both a degree-two and a linear term
SquareReductionReached ==
    /\ IsScenarioD /\ last.outcome = "ok"
    /\ last.args[1] = W0SquaredPlusW1
    /\ Len(opcodes) = 1

(***************************************************************************)
(* C13: call_black_box(Keccak256, [msg_group, [sz]], [], [], 32) succeeds, *)
(* pushes exactly one opcode, Keccak256VariableLength, whose inputs are    *)
(* the first group, whose var_message_size is the single item of the last  *)
(* group and whose outputs are 32 fresh consecutive witnesses, and returns *)
(* those 32 witnesses.                                                     *)
(***************************************************************************)
IsScenarioE ==
    /\ last.op = "call_black_box"
    /\ last.args[1] = "Keccak256"
    /\ Len(last.args[2]) = 2
    /\ Len(last.args[2][2]) = 1
    /\ last.args[5] = 32

KeccakDispatch ==
    IsScenarioE =>
        \E inputs \in {last.args[2]}, k \in {Len(last.pre.witness_log)} :
            /\ last.outcome = "ok"
            /\ last.ret = [i \in 1 .. 32 |-> k + i - 1]
            /\ NewWitnesses = k .. k + 31
            /\ Appended
            /\ NewOpcodes =
                 << [kind |-> "BlackBoxFuncCall",
                     call |-> [name |-> "Keccak256VariableLength",
                               inputs |-> inputs[1],
                               var_message_size |-> inputs[2][1],
                               outputs |-> last.ret]] >>

\* the scenario with a message of three items, after an earlier call that left
\* witnesses and an opcode behind
KeccakDispatchReached ==
    /\ IsScenarioE /\ last.outcome = "ok"
    /\ Len(last.args[2][1]) = 3
    /\ last.pre.opcodes # <<>>
    /\ Len(last.pre.witness_log) > 1

(***************************************************************************)
(* C14: every opcode pushed while the call stack S is non-empty gets       *)
(* locations[Acir(its index)] = S, and a push under the empty call stack   *)
(* adds no Acir entry.  A call never alters an entry whose index is below  *)
(* the length the stream had before the call; until take_opcodes is called *)
(* every entry is such an entry (LocationComplete), so neither a change of *)
(* the call stack nor a further push alters an entry recorded earlier.     *)
(***************************************************************************)
PushedIndices == Len(last.pre.opcodes) .. Len(opcodes) - 1

CallStackStamping ==
    /\ last.op # "take_opcodes" =>
           \E S \in {last.pre.call_stack} :
               /\ Appended
               /\ last.op # "set_call_stack" => call_stack = S
               /\ S # <<>> =>
                      \A i \in PushedIndices :
                          /\ Acir(i) \in DOMAIN locations
                          /\ locations[Acir(i)] = S
               /\ {k \in DOMAIN locations \ DOMAIN last.pre.locations : k[1] = "Acir"}
                      \subseteq IF S = <<>> THEN {} ELSE {Acir(i) : i \in PushedIndices}
               /\ S = <<>> =>
                      \A k \in DOMAIN last.pre.locations :
                          k[1] = "Acir" => locations[k] = last.pre.locations[k]
    /\ \A k \in DOMAIN last.pre.locations :
           k[2] < Len(last.pre.opcodes) =>
               /\ k \in DOMAIN locations
               /\ locations[k] = last.pre.locations[k]
    /\ (last.op # "take_opcodes" /\ LocationComplete(last.pre)) =>
           \A k \in DOMAIN last.pre.locations :
               /\ k \in DOMAIN locations
               /\ locations[k] = last.pre.locations[k]

\* two pushes under two different call stacks, the second one just made
CallStackStampingReached ==
    /\ LocationComplete(last.pre)
    /\ Len(last.pre.opcodes) = 1 /\ Len(opcodes) = 2
    /\ Acir(0) \in DOMAIN last.pre.locations
    /\ call_stack # <<>>
    /\ locations[Acir(0)] # call_stack
    /\ locations[Acir(1)] = call_stack

\* a push under the empty call stack, on a builder that holds a located opcode
EmptyCallStackReached ==
    /\ LocationComplete(last.pre)
    /\ last.pre.call_stack = <<>>
    /\ Len(opcodes) > Len(last.pre.opcodes)
    /\ DOMAIN locations # {}

(***************************************************************************)
(* C15: current_witness_index() leaves the builder as it was and returns   *)
(* the witness allocated last, or 0 when none has been allocated: 0 on a   *)
(* builder without allocation and on a builder with exactly one, and k - 1 *)
(* after k >= 1 allocations.                                               *)
(***************************************************************************)
CurrentWitnessIndexReport ==
    last.op = "current_witness_index" =>
        \E k \in {Len(witness_log)} :
            /\ last.outcome = "ok"
            /\ Self = last.pre
            /\ k = 0 => last.ret = 0
            /\ k >= 1 => last.ret = k - 1 /\ last.ret = witness_log[k]

\* the report on a builder with exactly one allocation, which is 0 as on a builder
\* with none
CurrentWitnessIndexReportReached ==
    /\ last.op = "current_witness_index"
    /\ Len(witness_log) = 1
    /\ last.ret = 0

\* the report on a builder without allocation that already holds an opcode
CurrentWitnessIndexUnallocatedReached ==
    /\ last.op = "current_witness_index"
    /\ witness_log = <<>> /\ opcodes # <<>>
    /\ last.ret = 0

\* the report after three allocations
CurrentWitnessIndexThirdReached ==
    /\ last.op = "current_witness_index"
    /\ Len(witness_log) = 3
    /\ last.ret = 2

(***************************************************************************)
(* C16: every call other than take_opcodes only appends to the opcode      *)
(* stream, and take_opcodes returns the whole stream in push order and     *)
(* leaves it empty, so it returns what was pushed since creation or since  *)
(* the previous take_opcodes and a second take_opcodes without a push in   *)
(* between returns the empty list.  take_opcodes changes no other field:   *)
(* the witness counter, return_witnesses, input_witnesses and the call     *)
(* stack are kept, and the witnesses handed out stay pairwise distinct.    *)
(***************************************************************************)
TakeOpcodesFrame ==
    /\ last.op # "take_opcodes" => Appended
    /\ last.op = "take_opcodes" =>
           /\ last.outcome = "ok"
           /\ last.ret = last.pre.opcodes
           /\ opcodes = <<>>
           /\ current_witness_index = last.pre.current_witness_index
           /\ return_witnesses = last.pre.return_witnesses
           /\ input_witnesses = last.pre.input_witnesses
           /\ call_stack = last.pre.call_stack
           /\ witness_log = last.pre.witness_log
           /\ Self = [last.pre EXCEPT !.opcodes = <<>>]
    /\ \A i, j \in DOMAIN witness_log : i < j => witness_log[i] < witness_log[j]

\* a take of several opcodes from a builder that holds witnesses and a return witness
TakeOpcodesFrameReached ==
    /\ last.op = "take_opcodes"
    /\ Len(last.ret) >= 2
    /\ current_witness_index # None
    /\ return_witnesses # <<>>

\* a take with no push since the previous take
TakeOpcodesTwiceReached ==
    /\ last.op = "take_opcodes"
    /\ last.ret = <<>>
    /\ DOMAIN locations # {}

\* a witness allocated after a take, above the ones allocated before it
FreshAfterTakeReached ==
    /\ last.op = "next_witness_index"
    /\ last.ret > 0
    /\ opcodes = <<>>
    /\ DOMAIN locations # {}

(***************************************************************************)
(* C17: call_black_box(Keccak256, inputs, ..., 32) whose inputs hold no    *)
(* message-size group after the message group (no group at all, or the     *)
(* message group alone) returns the error MissingArg with arg              *)
(* "message_size" and pushes no opcode.                                    *)
(***************************************************************************)
KeccakMissingSize ==
    (/\ last.op = "call_black_box"
     /\ last.args[1] = "Keccak256"
     /\ last.args[5] = 32
     /\ Len(last.args[2]) <= 1) =>
        /\ last.outcome = "err"
        /\ last.error.type = "MissingArg"
        /\ last.error.arg = "message_size"
        /\ opcodes = last.pre.opcodes

(***************************************************************************)
(* C18: a successful call_black_box(name, inputs, constant_inputs,         *)
(* constant_outputs, output_count) advances the witness counter by exactly *)
(* output_count, appends exactly one opcode, a BlackBoxFuncCall, and       *)
(* returns the output_count fresh witnesses in ascending consecutive       *)
(* order; with output_count = 0 it allocates nothing and returns the       *)
(* empty list.                                                             *)
(***************************************************************************)
BlackBoxOutputs ==
    (last.op = "call_black_box" /\ last.outcome = "ok") =>
        \E n \in {last.args[5]}, k \in {Len(last.pre.witness_log)} :
            /\ last.ret = [i \in 1 .. n |-> k + i - 1]
            /\ NewWitnesses = k .. k + n - 1
            /\ Len(witness_log) = k + n
            /\ current_witness_index =
                   IF n = 0 THEN last.pre.current_witness_index ELSE Some(k + n - 1)
            /\ n = 0 => last.ret = <<>> /\ witness_log = last.pre.witness_log
            /\ Appended
            /\ Len(NewOpcodes) = 1
            /\ NewOpcodes[1].kind = "BlackBoxFuncCall"

\* a call with two outputs, after a call that left outputs and an opcode behind
BlackBoxOutputsReached ==
    /\ last.op = "call_black_box" /\ last.outcome = "ok"
    /\ last.args[5] = 2
    /\ Len(last.pre.witness_log) > 1
    /\ last.pre.opcodes # <<>>

\* a call without outputs, on a builder that holds witnesses
BlackBoxNoOutputsReached ==
    /\ last.op = "call_black_box" /\ last.outcome = "ok"
    /\ last.args[5] = 0
    /\ last.args[1] # "RANGE"
    /\ last.pre.witness_log # <<>>

(***************************************************************************)
(* C19: brillig pushes exactly one Brillig opcode, at index k = the length *)
(* of the stream before the call, and allocates no witness.  For every     *)
(* (inner_index, call_stack) of the program's locations it sets            *)
(* locations[Brillig{k, inner_index}] = call_stack, for every              *)
(* (inner_index, message) of its assertion messages it sets                *)
(* assert_messages[Brillig{k, inner_index}] = message, and it leaves the   *)
(* entries keyed by other opcode indices as they were.                     *)
(***************************************************************************)
KeptElsewhere(before, after, k) ==
    \A key \in (DOMAIN before) \cup (DOMAIN after) :
        key[2] # k =>
            /\ key \in DOMAIN before /\ key \in DOMAIN after
            /\ after[key] = before[key]

BrilligFrame ==
    last.op = "brillig" =>
        \E g \in {last.args[1]}, k \in {Len(last.pre.opcodes)} :
            /\ last.outcome = "ok"
            /\ Len(opcodes) = k + 1
            /\ SubSeq(opcodes, 1, k) = last.pre.opcodes
            /\ opcodes[k + 1].kind = "Brillig"
            /\ opcodes[k + 1].bytecode = g.byte_code
            /\ current_witness_index = last.pre.current_witness_index
            /\ witness_log = last.pre.witness_log
            /\ \A i \in DOMAIN g.locations :
                   /\ <<"Brillig", k, i>> \in DOMAIN locations
                   /\ locations[<<"Brillig", k, i>>] = g.locations[i]
            /\ \A i \in DOMAIN g.assert_messages :
                   /\ <<"Brillig", k, i>> \in DOMAIN assert_messages
                   /\ assert_messages[<<"Brillig", k, i>>] = g.assert_messages[i]
            /\ KeptElsewhere(last.pre.locations, locations, k)
            /\ KeptElsewhere(last.pre.assert_messages, assert_messages, k)

\* a program with locations and messages embedded after another one, under a call
\* stack
BrilligFrameReached ==
    /\ last.op = "brillig"
    /\ DOMAIN last.args[1].locations # {}
    /\ DOMAIN last.args[1].assert_messages # {}
    /\ DOMAIN last.pre.assert_messages # {}
    /\ \E key \in DOMAIN last.pre.locations : key[1] = "Brillig"
    /\ \E key \in DOMAIN last.pre.locations : key[1] = "Acir"
    /\ Len(last.pre.opcodes) > 1

(***************************************************************************)
(* C20: push_return_witness(w) appends w to return_witnesses, a witness    *)
(* already listed included, and changes nothing else (not the opcode       *)
(* stream, the witness counter or locations); no other call changes        *)
(* return_witnesses.  Hence return_witnesses is the sequence of the pushed *)
(* arguments in call order, whatever calls come in between.                *)
(***************************************************************************)
ReturnWitnessesFrame ==
    /\ last.op = "new" => return_witnesses = <<>>
    /\ last.op = "push_return_witness" =>
           /\ last.outcome = "ok"
           /\ return_witnesses = Append(last.pre.return_witnesses, last.args[1])
           /\ opcodes = last.pre.opcodes
           /\ current_witness_index = last.pre.current_witness_index
           /\ locations = last.pre.locations
           /\ Self = [last.pre EXCEPT !.return_witnesses = return_witnesses]
    /\ last.op # "push_return_witness" => return_witnesses = last.pre.return_witnesses

\* the same witness pushed a second time, with another call in between
ReturnWitnessesFrameReached ==
    /\ last.op = "push_return_witness"
    /\ return_witnesses = <<last.args[1], last.args[1]>>
    /\ opcodes # <<>>

(***************************************************************************)
(* C21: radix_le_decompose with radix = 2^bit_size and bit_size >=         *)
(* max_num_bits returns the error InvalidRangeConstraint and does not emit *)
(* the binding AssertZero.                                                 *)
(*                                                                         *)
(* RadixOverflowAlways states it for every limb_count.  RadixOverflow      *)
(* states what the code does: with limb_count >= 1 the range constraint of *)
(* the first limb fails, after the limbs are allocated and the ToLeRadix   *)
(* directive is pushed, and nothing more is pushed; with limb_count = 0 no *)
(* range constraint is made, the call succeeds and pushes the directive    *)
(* and the binding AssertZero.                                             *)
(***************************************************************************)
IsRadixOverflow ==
    /\ last.op = "radix_le_decompose"
    /\ last.args[2] = Pow(2, last.args[4])
    /\ last.args[4] >= max_num_bits

RadixOverflowNoLimbReached ==
    /\ IsRadixOverflow /\ last.outcome = "ok"
    /\ last.args[3] = 0

(***************************************************************************)
(* C22: create_witness_for_expression(E) always allocates exactly one      *)
(* fresh witness w, pushes exactly the one opcode AssertZero(E - w) and    *)
(* returns w, also when E is a single witness.  get_or_create_witness(E)   *)
(* on an expression that is not exactly 1*w + 0 (a constant, a scaled      *)
(* witness, a witness plus a constant, an expression of several terms) has *)
(* exactly this effect.                                                    *)
(***************************************************************************)
IsForcedReduction ==
    \/ last.op = "create_witness_for_expression"
    \/ last.op = "get_or_create_witness" /\ ~IsWitnessForm(last.args[1])

ForcedReduction ==
    IsForcedReduction =>
        \E E \in {last.args[1]}, w \in {Len(last.pre.witness_log)} :
            /\ last.outcome = "ok"
            /\ last.ret = w
            /\ w \notin ExprWitnesses(E)
            /\ NewWitnesses = {w}
            /\ current_witness_index = Some(w)
            /\ Appended
            /\ NewOpcodes =
                 << [kind |-> "AssertZero",
                     expr |-> [mul_terms |-> E.mul_terms,
                               linear_combinations |->
                                   E.linear_combinations \o << <<FNeg(1), w>> >>,
                               q_c |-> E.q_c]] >>
            /\ return_witnesses = last.pre.return_witnesses
            /\ call_stack = last.pre.call_stack
            /\ assert_messages = last.pre.assert_messages

\* get_or_create_witness on a scaled witness, in a builder that holds opcodes
ForcedReductionReached ==
    /\ last.op = "get_or_create_witness"
    /\ last.args[1] = NegW0
    /\ Len(NewOpcodes) = 1
    /\ last.pre.opcodes # <<>>

\* create_witness_for_expression on a single witness
ForcedReductionOfWitnessReached ==
    /\ last.op = "create_witness_for_expression"
    /\ IsWitnessForm(last.args[1])
    /\ last.ret > 0

\* get_or_create_witness on a constant, before any allocation
ForcedReductionOfConstantReached ==
    /\ last.op = "get_or_create_witness"
    /\ is_const(last.args[1])
    /\ last.ret = 0

(***************************************************************************)
(* C23: for lhs and rhs of degree at most two, mul_with_witness(lhs, rhs)  *)
(* completes without a failed product and returns an expression of degree  *)
(* at most two.  When both operands are linear or either is a constant it  *)
(* allocates no witness and pushes no opcode.  Otherwise, when lhs and rhs *)
(* are not structurally equal, it allocates one witness per non-linear     *)
(* operand, lhs before rhs, and pushes one AssertZero(operand - witness)   *)
(* per allocated witness, in that order.                                   *)
(***************************************************************************)
NonLinearOperands(lhs, rhs) ==
    (IF lhs.mul_terms # <<>> THEN <<lhs>> ELSE <<>>)
        \o (IF rhs.mul_terms # <<>> THEN <<rhs>> ELSE <<>>)

MulReduction ==
    last.op = "mul_with_witness" =>
        \E lhs \in {last.args[1]}, rhs \in {last.args[2]},
           k \in {Len(last.pre.witness_log)} :
            /\ last.outcome = "ok"
            /\ DOMAIN last.ret = {"mul_terms", "linear_combinations", "q_c"}
            /\ \A i \in DOMAIN last.ret.mul_terms : Len(last.ret.mul_terms[i]) = 3
            /\ \A i \in DOMAIN last.ret.linear_combinations :
                   Len(last.ret.linear_combinations[i]) = 2
            /\ Appended
            /\ ((lhs.mul_terms = <<>> /\ rhs.mul_terms = <<>>)
                    \/ (lhs.mul_terms = <<>> /\ lhs.linear_combinations = <<>>)
                    \/ (rhs.mul_terms = <<>> /\ rhs.linear_combinations = <<>>)) =>
                   /\ NewWitnesses = {}
                   /\ NewOpcodes = <<>>
                   /\ Self = last.pre
            /\ (/\ ~(lhs.mul_terms = <<>> /\ rhs.mul_terms = <<>>)
                /\ ~(lhs.mul_terms = <<>> /\ lhs.linear_combinations = <<>>)
                /\ ~(rhs.mul_terms = <<>> /\ rhs.linear_combinations = <<>>)
                /\ lhs # rhs) =>
                   \E R \in {NonLinearOperands(lhs, rhs)} :
                       /\ Len(R) >= 1
                       /\ NewWitnesses = k .. k + Len(R) - 1
                       /\ NewOpcodes =
                            [i \in 1 .. Len(R) |->
                                [kind |-> "AssertZero",
                                 expr |-> [mul_terms |-> R[i].mul_terms,
                                           linear_combinations |->
                                               R[i].linear_combinations
                                                   \o << <<FNeg(1), k + i - 1>> >>,
                                           q_c |-> R[i].q_c]]]

\* two different non-linear operands, each reduced
MulReductionReached ==
    /\ last.op = "mul_with_witness" /\ last.outcome = "ok"
    /\ last.args = <<W0SquaredPlusW1, W0TimesW1>>
    /\ Len(NewOpcodes) = 2

\* a non-linear lhs and a linear rhs: one reduction
MulReductionOneSideReached ==
    /\ last.op = "mul_with_witness" /\ last.outcome = "ok"
    /\ last.args = <<W0TimesW1, W0Plus3>>
    /\ Len(NewOpcodes) = 1

\* a constant times a non-linear operand: the direct product
MulReductionDirectReached ==
    /\ last.op = "mul_with_witness" /\ last.outcome = "ok"
    /\ last.args = <<Const2, W0SquaredPlusW1>>
    /\ last.ret.mul_terms # <<>>

(***************************************************************************)
(* C24: is_zero(E), reached as is_equal(lhs, rhs) with E = lhs - rhs.      *)
(* When E or -E is exactly a witness w, t = w is reused, exactly two       *)
(* witnesses are allocated, z and then y = z + 1, and exactly three        *)
(* opcodes are appended in this order: the inverse Brillig opcode with     *)
(* input t, single output z and predicate 1, AssertZero(t*z + y - 1),      *)
(* AssertZero(t*y).  Otherwise t is allocated first and AssertZero(-E - t) *)
(* is pushed before those three.  The call returns y, the last witness     *)
(* allocated.                                                              *)
(***************************************************************************)
IsZeroShape ==
    last.op = "is_equal" =>
        \E E \in {ExprSub(last.args[1], last.args[2])},
           k \in {Len(last.pre.witness_log)} :
            \E negE \in {ExprScale(E, FNeg(1))} :
                \E reuse \in {IsWitnessForm(E) \/ IsWitnessForm(negE)} :
                    \E t \in {IF IsWitnessForm(E) THEN E.linear_combinations[1][2]
                              ELSE IF IsWitnessForm(negE)
                              THEN negE.linear_combinations[1][2]
                              ELSE k},
                       z \in {IF reuse THEN k ELSE k + 1} :
                        \E y \in {z + 1} :
                            /\ last.outcome = "ok"
                            /\ last.ret = y
                            /\ witness_log[Len(witness_log)] = y
                            /\ NewWitnesses = IF reuse THEN {z, y} ELSE {t, z, y}
                            /\ reuse => t \in Allocated(last.pre)
                            /\ Appended
                            /\ NewOpcodes =
                                 (IF reuse THEN <<>>
                                  ELSE << [kind |-> "AssertZero",
                                           expr |-> [mul_terms |-> negE.mul_terms,
                                                     linear_combinations |->
                                                         negE.linear_combinations
                                                             \o << <<FNeg(1), t>> >>,
                                                     q_c |-> negE.q_c]] >>)
                                 \o << [kind |-> "Brillig",
                                        inputs |-> << [kind |-> "Single",
                                                       expr |-> [mul_terms |-> <<>>,
                                                                 linear_combinations |->
                                                                     << <<1, t>> >>,
                                                                 q_c |-> 0]] >>,
                                        outputs |-> << [kind |-> "Simple", witness |-> z] >>,
                                        bytecode |-> "directive_invert",
                                        predicate |-> Some([mul_terms |-> <<>>,
                                                            linear_combinations |-> <<>>,
                                                            q_c |-> 1])],
                                       [kind |-> "AssertZero",
                                        expr |-> [mul_terms |-> << <<1, t, z>> >>,
                                                  linear_combinations |-> << <<1, y>> >>,
                                                  q_c |-> FNeg(1)]],
                                       [kind |-> "AssertZero",
                                        expr |-> [mul_terms |-> << <<1, t, y>> >>,
                                                  linear_combinations |-> <<>>,
                                                  q_c |-> 0]] >>

\* E = -w0: the witness of -E is reused, in a builder that holds more witnesses
IsZeroShapeReached ==
    /\ last.op = "is_equal" /\ last.outcome = "ok"
    /\ last.args = <<NegW0, Const0>>
    /\ Len(NewOpcodes) = 3
    /\ Len(last.pre.witness_log) > 1

\* E = w1 exactly: reused as it is
IsZeroShapeOfWitnessReached ==
    /\ last.op = "is_equal" /\ last.outcome = "ok"
    /\ last.args = <<W1, Const0>>
    /\ Len(NewOpcodes) = 3

\* neither E nor -E is a witness: t is allocated first
IsZeroShapeReducedReached ==
    /\ last.op = "is_equal" /\ last.outcome = "ok"
    /\ last.args = <<W0SquaredPlusW1, W1>>
    /\ Len(NewOpcodes) = 4
    /\ last.pre.opcodes # <<>>

(***************************************************************************)
(* C25: permutation(in, out) with n = |in| allocates                       *)
(* B = sum over i < n of ceil(log2(i + 1)) control bits (0, 1, 3, 5 for    *)
(* n = 1, 2, 3, 4) before it pushes any opcode, pushes first the one       *)
(* PermutationSort directive whose inputs are the n single-element tuples  *)
(* of in, with tuple = 1, sort_by = [0] and bits = those B witnesses, and  *)
(* pushes last, after the opcodes of the network, one AssertZero(b_i -     *)
(* out_i) per pair (b_i, out_i) in index order, b being the outputs of the *)
(* network.                                                                *)
(***************************************************************************)
\* ceil(log2(m)), as the least e with 2^e >= m
CeilLog(m) == CHOOSE e \in 0 .. m : Pow(2, e) >= m /\ (e = 0 \/ Pow(2, e - 1) < m)

RECURSIVE ControlBits(_)
ControlBits(n) == IF n = 0 THEN 0 ELSE ControlBits(n - 1) + CeilLog(n)

Min(a, b) == IF a <= b THEN a ELSE b

\* the assignment that is a on the witnesses allocated before the call, bit on the
\* control bits and 0 on the witnesses the network allocates
NetworkStart(a, bit) ==
    [w \in Allocated(Self) |->
        IF w \in DOMAIN a THEN a[w] ELSE IF w \in DOMAIN bit THEN bit[w] ELSE 0]

\* an opcode AssertZero(E - w) with w allocated by the network determines w
SolveStep(op, first, full) ==
    LET lc == op.expr.linear_combinations
    IN  IF lc # <<>> /\ lc[Len(lc)][1] = FNeg(1) /\ lc[Len(lc)][2] >= first
        THEN [full EXCEPT ![lc[Len(lc)][2]] =
                  Eval(op.expr, [full EXCEPT ![lc[Len(lc)][2]] = 0])]
        ELSE full

\* the assignment that satisfies the opcodes ops[i .. to] of the network, in order
RECURSIVE Solve(_, _, _, _, _)
Solve(ops, i, to, first, full) ==
    IF i > to THEN full
    ELSE Then(SolveStep(ops[i], first, full),
              LAMBDA next : Solve(ops, i + 1, to, first, next))

PermutationShape ==
    last.op = "permutation" =>
        \E in_expr \in {last.args[1]}, out_expr \in {last.args[2]},
           k \in {Len(last.pre.witness_log)}, ops \in {NewOpcodes} :
            \E n \in {Len(in_expr)} :
                \E B \in {ControlBits(n)}, m \in {Min(n, Len(out_expr))} :
                    /\ last.outcome = "ok"
                    /\ n = 1 => B = 0
                    /\ n = 2 => B = 1
                    /\ n = 3 => B = 3
                    /\ n = 4 => B = 5
                    /\ Appended
                    /\ k .. k + B - 1 \subseteq NewWitnesses
                    /\ NewWitnesses = k .. Len(witness_log) - 1
                    /\ Len(ops) >= 1 + m
                    /\ ops[1] =
                         [kind |-> "Directive",
                          directive |-> [name |-> "PermutationSort",
                                         inputs |-> [i \in 1 .. n |-> <<in_expr[i]>>],
                                         tuple |-> 1,
                                         bits |-> [j \in 1 .. B |-> k + j - 1],
                                         sort_by |-> <<0>>]]
                    /\ \A i \in 2 .. Len(ops) : ops[i].kind = "AssertZero"
                    /\ \A a \in [0 .. k - 1 -> FieldElement],
                          bit \in [k .. k + B - 1 -> {0, 1}] :
                           \E full \in {Solve(ops, 2, Len(ops) - m, k + B,
                                              NetworkStart(a, bit))} :
                               \E b \in {[i \in 1 .. m |->
                                            FAdd(Eval(ops[Len(ops) - m + i].expr, full),
                                                 Eval(out_expr[i], full))]} :
                                   /\ \A i \in 2 .. Len(ops) - m :
                                          Eval(ops[i].expr, full) = 0
                                   /\ \A i \in 1 .. m :
                                          \E j \in 1 .. n : b[i] = Eval(in_expr[j], full)
                                   /\ m = n => IsPermutationOf(b, Values(in_expr, full))
                                   /\ (\A c \in DOMAIN bit : bit[c] = 0) =>
                                          \A i \in 1 .. m : b[i] = Eval(in_expr[i], full)

\* four inputs and four outputs: five control bits, several layers
PermutationShapeReached ==
    /\ last.op = "permutation" /\ last.outcome = "ok"
    /\ Len(last.args[1]) = 4 /\ Len(last.args[2]) = 4
    /\ last.args[1] # last.args[2]
    /\ Cardinality(NewWitnesses) > 5

(***************************************************************************)
(* C26: the opcode stream is append-only between two take_opcodes calls.   *)
(* Every call other than take_opcodes, the failing ones included, leaves   *)
(* the stream it found as a prefix of the new stream: no opcode is         *)
(* removed, replaced or reordered, and what the call adds comes after      *)
(* everything added before.  The calls that push nothing leave the stream  *)
(* as it was.                                                              *)
(***************************************************************************)
AppendOnly ==
    last.op # "take_opcodes" =>
        /\ Len(opcodes) >= Len(last.pre.opcodes)
        /\ \A i \in DOMAIN last.pre.opcodes : opcodes[i] = last.pre.opcodes[i]
        /\ opcodes = last.pre.opcodes \o NewOpcodes
        /\ last.op \in {"new", "set_call_stack", "current_witness_index",
                        "next_witness_index", "push_return_witness"} =>
               opcodes = last.pre.opcodes

\* a call that adds several opcodes to a stream of opcodes of different kinds
AppendOnlyReached ==
    /\ last.op # "take_opcodes"
    /\ Len(NewOpcodes) >= 2
    /\ Len(last.pre.opcodes) >= 2
    /\ \E i, j \in DOMAIN last.pre.opcodes : last.pre.opcodes[i].kind # last.pre.opcodes[j].kind

(***************************************************************************)
(* C27: call_black_box returns an error only as MissingArg, for Keccak256  *)
(* called without any input group.  Then the opcode stream, locations and  *)
(* assert_messages are as before the call, but the witness counter has     *)
(* advanced by output_count: the output witnesses were allocated before    *)
(* the error and appear in no opcode.                                      *)
(***************************************************************************)
MissingArgAfterAllocation ==
    last.op = "call_black_box" =>
        \E n \in {last.args[5]}, k \in {Len(last.pre.witness_log)} :
            /\ last.outcome = "err" <=>
                   (last.args[1] = "Keccak256" /\ last.args[2] = <<>> /\ n = 32)
            /\ last.outcome = "err" =>
                   /\ last.error = [type |-> "MissingArg", name |-> "",
                                    arg |-> "message_size",
                                    call_stack |-> last.pre.call_stack]
                   /\ opcodes = last.pre.opcodes
                   /\ locations = last.pre.locations
                   /\ assert_messages = last.pre.assert_messages
                   /\ NewWitnesses = k .. k + n - 1
                   /\ witness_log = last.pre.witness_log \o [i \in 1 .. n |-> k + i - 1]
                   /\ current_witness_index = Some(k + n - 1)
                   /\ Self = [last.pre EXCEPT
                                 !.current_witness_index = current_witness_index,
                                 !.witness_log = witness_log]

\* the error on a builder that holds the outputs and the opcode of an earlier call
MissingArgAfterAllocationReached ==
    /\ last.op = "call_black_box" /\ last.outcome = "err"
    /\ last.pre.opcodes # <<>>
    /\ Len(last.pre.witness_log) > 1
    /\ Len(witness_log) = Len(last.pre.witness_log) + 32

====
